---- MODULE Spec2Model ----
(***************************************************************************)
(* Model of two parts of the Rook operator:                                *)
(*   - pkg/operator/ceph/cluster/rbd/mirror.go: the reconcile call         *)
(*     ReconcileCephRBDMirror.start and its cleanup removeExtraMirrors;    *)
(*   - pkg/operator/ceph/cluster/osd/spec.go: the OSD pod plan built by    *)
(*     Cluster.makeDeployment and the shell programs of its init           *)
(*     containers (blockDevMapper, getKEKFromVaultWithToken,               *)
(*     openEncryptedBlock).                                                *)
(* Each part has a specification of its own (SpecReconcile, ...); the      *)
(* variables of the other parts stay at their idle values. SpecQueue runs  *)
(* the apply phase of several start calls for one daemon on one cluster.   *)
(***************************************************************************)
EXTENDS Integers, Sequences, FiniteSets, TLC

VARIABLES
    \* ---- rbd/mirror.go ----
    crName,      \* cephRBDMirror.Name, the name of the custom resource
    live,        \* the cluster's deployments: name -> deployment object
    creds,       \* the cephx keys that exist, by daemon index
    pc,          \* position of the running start call
    d,           \* the deployment object start builds (the desired plan)
    calls,       \* the deployment API calls this start call issued, in order
    credCalls,   \* the AuthDelete calls this start call issued, in order
    ret,         \* what start returned: "none" (running), "nil", "err"
    faults,      \* the API calls of this start call that failed for an outside reason
    updateRes,   \* result of updateDeploymentAndWait in this start call
    items,       \* d.Items of removeExtraMirrors
    cursor,      \* index of the next item of the range loop
    cleanupRes,  \* what removeExtraMirrors returned: "none", "nil", "err"
    callNo,      \* number of start calls begun
    liveAtStart, \* history: the cluster when this start call began
    prevCalls,   \* history: calls of the previous start call
    prevFaults,  \* history: faults of the previous start call
    \* ---- osd/spec.go: makeDeployment ----
    topo,        \* osdProps, osd and cluster spec: what the plan is built from
    plan,        \* the deployment makeDeployment returned
    planState,   \* "input" before makeDeployment, then "built" or "error"
    \* ---- osd/spec.go: blockDevMapper ----
    cpSource,    \* the device node at PVC_SOURCE: [major, minor]
    cpDest,      \* the node at PVC_DEST, NoNode when there is none
    cpWrites,    \* how many times cp wrote the node at PVC_DEST
    cpExit,      \* exit status of the last run of the script, -1 before
    cpRuns,      \* number of runs of the script
    cpBefore,    \* history: source, destination and writes before the last run
    \* ---- osd/spec.go: getKEKFromVaultWithToken, openEncryptedBlock ----
    kfTopo,      \* the topology of the encrypted OSD whose steps run
    kfPc,        \* index of the next step of the key flow to run
    kfStatus,    \* "ready", "failed" (a step exited non-zero) or "done"
    kfFiles,     \* key path -> content of the file: "absent", "empty", "kek"
    kfTmp,       \* the file at CURL_PAYLOAD: "absent", "empty" or "body"
    kfDm,        \* DM_NAME -> "closed", "open" or "stale" (backing device gone)
    kfReads,     \* times cryptsetup read the key and it was deleted, this pod
    kfRuns,      \* number of steps run
    kfLast,      \* history: what the step that just returned saw, else <<>>
    \* ---- rbd/mirror.go: start calls of several reconcile requests ----
    rqLive,      \* the cluster's deployments: name -> deployment object
    rqCr,        \* request -> cephRBDMirror.Name of its custom resource
    rqPc,        \* request -> position of its start call
    rqLog,       \* the deployment API calls of all requests, in order
    rqFault      \* whether an API call failed for an outside reason

reconVars == <<crName, live, creds, pc, d, calls, credCalls, ret, faults,
               updateRes, items, cursor, cleanupRes, callNo, liveAtStart,
               prevCalls, prevFaults>>

planVars == <<topo, plan, planState>>

copyVars == <<cpSource, cpDest, cpWrites, cpExit, cpRuns, cpBefore>>

keyVars == <<kfTopo, kfPc, kfStatus, kfFiles, kfTmp, kfDm, kfReads, kfRuns, kfLast>>

queueVars == <<rqLive, rqCr, rqPc, rqLog, rqFault>>

vars == <<reconVars, planVars, copyVars, keyVars, queueVars>>

nonReconVars == <<planVars, copyVars, keyVars, queueVars>>

nonPlanVars == <<reconVars, copyVars, keyVars, queueVars>>

nonCopyVars == <<reconVars, planVars, keyVars, queueVars>>

nonKeyVars == <<reconVars, planVars, copyVars, queueVars>>

nonQueueVars == <<reconVars, planVars, copyVars, keyVars>>

-----------------------------------------------------------------------------
(* rbd/mirror.go *)

\* Bound: the number of successive start calls of one behaviour.
MaxCalls == 2

\* AppName-daemonID with daemonID = IndexToName(0) = "a".
ResourceName == "rook-ceph-rbd-mirror-a"

\* Names a CephRBDMirror resource may have: any name, also the deployment's.
CRNames == {"my-rbd-mirror", ResourceName}

LegacyNames == {"rook-ceph-rbd-mirror-b", "rook-ceph-rbd-mirror-c"}

\* The order in which a List returns the deployments (by name).
NameOrder == <<"my-rbd-mirror", "rook-ceph-rbd-mirror-a",
               "rook-ceph-rbd-mirror-b", "rook-ceph-rbd-mirror-c">>

\* Result of looking up and parsing the "rbd-mirror" label of a deployment:
\* NoLabel when the label is missing, BadLabel when NameToIndex fails,
\* otherwise the index (0 for "a", 1 for "b", ...).
NoLabel == 0 - 2
BadLabel == 0 - 1

\* The plan this reconcile wants: pod template (spec) and label selector.
DesiredSpec == 1
DesiredSelector == 1

Deployment(spec, selector, app, mirror, owner, annotated) ==
    [spec |-> spec, selector |-> selector, app |-> app, mirror |-> mirror,
     owner |-> owner, annotated |-> annotated]

\* No deployment object built yet.
NoPlan == Deployment(0, 0, FALSE, NoLabel, FALSE, FALSE)

\* The object start creates, once owner reference and annotation are set.
DesiredDeployment == Deployment(DesiredSpec, DesiredSelector, TRUE, 0, TRUE, TRUE)

Exists(name) == name \in DOMAIN live

Put(name, obj) ==
    [n \in (DOMAIN live) \cup {name} |-> IF n = name THEN obj ELSE live[n]]

Remove(name) == [n \in (DOMAIN live) \ {name} |-> live[n]]

Call(op, name) == [op |-> op, name |-> name]

\* The deployments an earlier operator run may have left for the daemon.
OldCanonical ==
    {Deployment(s, sel, TRUE, 0, TRUE, TRUE) : s \in {1, 2}, sel \in {1, 2}}

\* Legacy mirrors and other deployments carrying the app label.
OldLegacy(n) ==
    IF n = "rook-ceph-rbd-mirror-b"
      THEN {Deployment(2, 2, TRUE, m, TRUE, TRUE) : m \in {1, BadLabel}}
      ELSE {Deployment(2, 2, TRUE, m, TRUE, TRUE) : m \in {2, NoLabel}}

\* A deployment of another application that has the resource's name.
Unrelated == Deployment(2, 2, FALSE, NoLabel, FALSE, FALSE)

InitialClusters(cr) ==
    { f \in UNION {[S -> OldCanonical \cup {Unrelated}
                          \cup OldLegacy("rook-ceph-rbd-mirror-b")
                          \cup OldLegacy("rook-ceph-rbd-mirror-c")] :
                   S \in SUBSET (LegacyNames \cup {ResourceName, cr})} :
        \A n \in DOMAIN f :
            /\ n = ResourceName => f[n] \in OldCanonical
            /\ n \in LegacyNames => f[n] \in OldLegacy(n)
            /\ n \notin LegacyNames \cup {ResourceName} => f[n] = Unrelated }

ReconcileInit ==
    /\ crName \in CRNames
    /\ live \in InitialClusters(crName)
    /\ creds = {live[n].mirror : n \in {m \in DOMAIN live : live[m].mirror >= 0}}
    /\ pc = "idle"
    /\ d = NoPlan
    /\ calls = <<>>
    /\ credCalls = <<>>
    /\ ret = "none"
    /\ faults = {}
    /\ updateRes = "none"
    /\ items = <<>>
    /\ cursor = 1
    /\ cleanupRes = "none"
    /\ callNo = 0
    /\ liveAtStart = live
    /\ prevCalls = <<>>
    /\ prevFaults = {}

\* Return from start with the given result.
Return(r) ==
    /\ pc' = "done"
    /\ ret' = r

\* The reconcile loop calls start (again).
StartCall ==
    /\ pc \in {"idle", "done"}
    /\ callNo < MaxCalls
    /\ callNo' = callNo + 1
    /\ pc' = "checkMemory"
    /\ d' = NoPlan
    /\ calls' = <<>>
    /\ credCalls' = <<>>
    /\ ret' = "none"
    /\ faults' = {}
    /\ updateRes' = "none"
    /\ items' = <<>>
    /\ cursor' = 1
    /\ cleanupRes' = "none"
    /\ liveAtStart' = live
    /\ prevCalls' = calls
    /\ prevFaults' = faults
    /\ UNCHANGED <<crName, live, creds>>
    /\ UNCHANGED nonReconVars

\* controller.CheckPodMemory
CheckPodMemory ==
    /\ pc = "checkMemory"
    /\ \E ok \in BOOLEAN :
        IF ok THEN pc' = "ownerRef" /\ ret' = ret
              ELSE Return("err")
    /\ UNCHANGED <<crName, live, creds, d, calls, credCalls, faults, updateRes,
                   items, cursor, cleanupRes, callNo, liveAtStart, prevCalls,
                   prevFaults>>
    /\ UNCHANGED nonReconVars

\* opcontroller.GetControllerObjectOwnerReference, and
\* "if err != nil || ref == nil { return errors.Wrapf(err, ...) }":
\* errors.Wrapf(nil, ...) is nil, so a nil ref with a nil err returns nil.
GetOwnerReference ==
    /\ pc = "ownerRef"
    /\ \E out \in {"ref", "err", "nilnil"} :
        CASE out = "ref" -> pc' = "keyring" /\ ret' = ret
          [] out = "err" -> Return("err")
          [] out = "nilnil" -> Return("nil")
    /\ UNCHANGED <<crName, live, creds, d, calls, credCalls, faults, updateRes,
                   items, cursor, cleanupRes, callNo, liveAtStart, prevCalls,
                   prevFaults>>
    /\ UNCHANGED nonReconVars

\* r.generateKeyring: creates the cephx key of daemon "a".
GenerateKeyring ==
    /\ pc = "keyring"
    /\ \E ok \in BOOLEAN :
        IF ok THEN pc' = "makeDeployment" /\ ret' = ret /\ creds' = creds \cup {0}
              ELSE Return("err") /\ creds' = creds
    /\ UNCHANGED <<crName, live, d, calls, credCalls, faults, updateRes,
                   items, cursor, cleanupRes, callNo, liveAtStart, prevCalls,
                   prevFaults>>
    /\ UNCHANGED nonReconVars

\* r.makeDeployment: builds the deployment object, not yet owned or annotated.
MakeMirrorDeployment ==
    /\ pc = "makeDeployment"
    /\ \E ok \in BOOLEAN :
        IF ok THEN /\ pc' = "setOwner" /\ ret' = ret
                   /\ d' = Deployment(DesiredSpec, DesiredSelector, TRUE, 0, FALSE, FALSE)
              ELSE Return("err") /\ d' = d
    /\ UNCHANGED <<crName, live, creds, calls, credCalls, faults, updateRes,
                   items, cursor, cleanupRes, callNo, liveAtStart, prevCalls,
                   prevFaults>>
    /\ UNCHANGED nonReconVars

\* controllerutil.SetControllerReference
SetControllerReference ==
    /\ pc = "setOwner"
    /\ \E ok \in BOOLEAN :
        IF ok THEN pc' = "annotate" /\ ret' = ret /\ d' = [d EXCEPT !.owner = TRUE]
              ELSE Return("err") /\ d' = d
    /\ UNCHANGED <<crName, live, creds, calls, credCalls, faults, updateRes,
                   items, cursor, cleanupRes, callNo, liveAtStart, prevCalls,
                   prevFaults>>
    /\ UNCHANGED nonReconVars

\* start goes on to the Create although the annotation could not be set.
AfterAnnotateIgnoringFailure(ok) == "create"

\* "if err != nil { return errors.Wrapf(err, "failed to set annotation ...") }"
AfterAnnotate(ok) == IF ok THEN "create" ELSE "done"

\* patch.DefaultAnnotator.SetLastAppliedAnnotation
SetLastAppliedAnnotation ==
    /\ pc = "annotate"
    /\ \E ok \in BOOLEAN :
        /\ pc' = AfterAnnotate(ok)
        /\ ret' = IF AfterAnnotate(ok) = "done" THEN "err" ELSE ret
        /\ d' = IF ok THEN [d EXCEPT !.annotated = TRUE] ELSE d
    /\ UNCHANGED <<crName, live, creds, calls, credCalls, faults, updateRes,
                   items, cursor, cleanupRes, callNo, liveAtStart, prevCalls,
                   prevFaults>>
    /\ UNCHANGED nonReconVars

\* Deployments(ns).Create(ctx, d): the object's name is resourceName.
\* AlreadyExists when a deployment of that name is live; otherwise the API
\* creates it or fails for an outside reason.
CreateDeployment ==
    /\ pc = "create"
    /\ calls' = Append(calls, Call("create", ResourceName))
    /\ IF Exists(ResourceName)
         THEN /\ pc' = "update" /\ ret' = ret
              /\ UNCHANGED <<live, faults>>
         ELSE \E ok \in BOOLEAN :
                IF ok THEN /\ live' = Put(ResourceName, d)
                           /\ pc' = "cleanup" /\ ret' = ret
                           /\ faults' = faults
                      ELSE /\ Return("err")
                           /\ faults' = faults \cup {"create"}
                           /\ live' = live
    /\ UNCHANGED <<crName, creds, d, credCalls, updateRes, items, cursor,
                   cleanupRes, callNo, liveAtStart, prevCalls, prevFaults>>
    /\ UNCHANGED nonReconVars

\* An update that succeeded also enters the del-and-recreate fallback.
AfterUpdateAlwaysFallback(out) == "delete"

\* "if err := updateDeploymentAndWait(...); err != nil { del-and-recreate }":
\* where start goes after the update.
AfterUpdate(out) == IF out = "ok" THEN "cleanup" ELSE "delete"

\* updateDeploymentAndWait(..., d, ...): updates the live deployment named
\* d.Name in place. The API rejects the update when the selector would change
\* (immutable field); it may also fail for an outside reason.
UpdateDeploymentAndWait ==
    /\ pc = "update"
    /\ calls' = Append(calls, Call("update", ResourceName))
    /\ \E out \in {"ok", "immutable", "error"} :
        /\ out = "ok" => live[ResourceName].selector = d.selector
        /\ out = "immutable" => live[ResourceName].selector # d.selector
        /\ updateRes' = out
        /\ faults' = IF out = "error" THEN faults \cup {"update"} ELSE faults
        /\ live' = IF out = "ok" THEN Put(ResourceName, d) ELSE live
        /\ pc' = AfterUpdate(out)
    /\ UNCHANGED <<crName, creds, d, credCalls, ret, items, cursor,
                   cleanupRes, callNo, liveAtStart, prevCalls, prevFaults>>
    /\ UNCHANGED nonReconVars

\* The name the del-and-recreate fallback deletes:
\* Deployments(ns).Delete(ctx, cephRBDMirror.Name, ...).
DeleteTarget == crName

\* start goes on to the second Create although the Delete failed.
AfterDeleteIgnoringFailure(ok) == "recreate"

\* "if err != nil { return errors.Wrapf(err, "failed to delete ...") }"
AfterDelete(ok) == IF ok THEN "recreate" ELSE "done"

\* Deployments(ns).Delete of the fallback: NotFound when no deployment has
\* that name; otherwise the API deletes it or fails for an outside reason.
DeleteForRecreate ==
    /\ pc = "delete"
    /\ calls' = Append(calls, Call("delete", DeleteTarget))
    /\ \E ok \in BOOLEAN :
        /\ ~Exists(DeleteTarget) => ~ok
        /\ live' = IF ok THEN Remove(DeleteTarget) ELSE live
        /\ faults' = IF ~ok /\ Exists(DeleteTarget) THEN faults \cup {"delete"}
                      ELSE faults
        /\ pc' = AfterDelete(ok)
        /\ ret' = IF AfterDelete(ok) = "done" THEN "err" ELSE ret
    /\ UNCHANGED <<crName, creds, d, credCalls, updateRes, items, cursor,
                   cleanupRes, callNo, liveAtStart, prevCalls, prevFaults>>
    /\ UNCHANGED nonReconVars

\* start goes on to the cleanup although the second Create failed.
AfterRecreateAlwaysCleanup(ok) == "cleanup"

\* "if _, err := ...Create(ctx, d, ...); err != nil { return errors.Wrapf(err,
\* "failed to recreate ...") }"
AfterRecreate(ok) == IF ok THEN "cleanup" ELSE "done"

\* The second Deployments(ns).Create(ctx, d) of the fallback: AlreadyExists
\* when a deployment named resourceName is (still) live.
RecreateDeployment ==
    /\ pc = "recreate"
    /\ calls' = Append(calls, Call("create", ResourceName))
    /\ \E ok \in BOOLEAN :
        /\ Exists(ResourceName) => ~ok
        /\ live' = IF ok THEN Put(ResourceName, d) ELSE live
        /\ faults' = IF ~ok /\ ~Exists(ResourceName) THEN faults \cup {"recreate"}
                      ELSE faults
        /\ pc' = AfterRecreate(ok)
        /\ ret' = IF AfterRecreate(ok) = "done" THEN "err" ELSE ret
    /\ UNCHANGED <<crName, creds, d, credCalls, updateRes, items, cursor,
                   cleanupRes, callNo, liveAtStart, prevCalls, prevFaults>>
    /\ UNCHANGED nonReconVars

\* The deployments a List with LabelSelector app=AppName returns.
Listing ==
    LET hit == SelectSeq(NameOrder, LAMBDA n : Exists(n) /\ live[n].app)
    IN  [i \in 1..Len(hit) |-> [name |-> hit[i], mirror |-> live[hit[i]].mirror]]

\* removeExtraMirrors up to the range loop: the List call and len(d.Items) > 1.
ListMirrors ==
    /\ pc = "cleanup"
    /\ calls' = Append(calls, Call("list", "app"))
    /\ \E ok \in BOOLEAN :
        IF ok THEN /\ items' = Listing
                   /\ cursor' = 1
                   /\ IF Len(Listing) > 1
                        THEN pc' = "loop" /\ cleanupRes' = cleanupRes
                        ELSE pc' = "cleaned" /\ cleanupRes' = "nil"
                   /\ faults' = faults
              ELSE /\ pc' = "cleaned" /\ cleanupRes' = "err"
                   /\ faults' = faults \cup {"list"}
                   /\ UNCHANGED <<items, cursor>>
    /\ UNCHANGED <<crName, live, creds, d, credCalls, ret, updateRes, callNo, liveAtStart, prevCalls, prevFaults>>
    /\ UNCHANGED nonReconVars

\* The loop does not skip the instance with index 0.
SkippedNotCanonical(item) == item.mirror = NoLabel \/ item.mirror = BadLabel

\* The labels of an item make the loop skip it: no "rbd-mirror" label, a
\* label NameToIndex cannot parse, or index 0.
Skipped(item) == item.mirror = NoLabel \/ item.mirror = BadLabel \/ item.mirror = 0

\* The loop stops at an instance whose deployment could not be deleted.
LoopGoesOnAfterDelete(delOk, authOk) == delOk /\ authOk

\* The loop never stops before the end of the listing.
LoopGoesOnAlways(delOk, authOk) == TRUE

\* Whether the range loop goes on to the next item after this one: a failed
\* Delete is only logged, a failed AuthDelete returns its error.
LoopGoesOn(delOk, authOk) == authOk

\* The credential is deleted only when the deployment was deleted.
AuthDeleteOnlyAfterDelete(delOk) == delOk

\* Whether client.AuthDelete is called after the Delete of the deployment: the
\* failure of the Delete is logged and the code goes on to the AuthDelete.
AuthDeleteAttempted(delOk) == TRUE

\* One iteration of the range loop of removeExtraMirrors.
RemoveMirror ==
    /\ pc = "loop"
    /\ cursor <= Len(items)
    /\ LET item == items[cursor] IN
        IF Skipped(item)
          THEN /\ cursor' = cursor + 1
               /\ UNCHANGED <<live, creds, calls, credCalls, faults, pc, cleanupRes>>
          ELSE \E delOk \in BOOLEAN, authOk \in BOOLEAN :
                /\ calls' = Append(calls, Call("delete", item.name))
                /\ live' = IF delOk /\ Exists(item.name) THEN Remove(item.name) ELSE live
                /\ AuthDeleteAttempted(delOk) \/ authOk
                /\ credCalls' = IF AuthDeleteAttempted(delOk)
                                  THEN Append(credCalls, item.mirror) ELSE credCalls
                /\ creds' = IF AuthDeleteAttempted(delOk) /\ authOk
                              THEN creds \ {item.mirror} ELSE creds
                /\ faults' = faults \cup (IF delOk THEN {} ELSE {"legacyDelete"})
                                   \cup (IF authOk THEN {} ELSE {"authDelete"})
                /\ IF LoopGoesOn(delOk, authOk)
                     THEN cursor' = cursor + 1 /\ UNCHANGED <<pc, cleanupRes>>
                     ELSE pc' = "cleaned" /\ cleanupRes' = "err" /\ cursor' = cursor
    /\ UNCHANGED <<crName, d, ret, updateRes, items, callNo, liveAtStart, prevCalls, prevFaults>>
    /\ UNCHANGED nonReconVars

\* The range loop is over: removeExtraMirrors returns nil.
EndLoop ==
    /\ pc = "loop"
    /\ cursor > Len(items)
    /\ pc' = "cleaned"
    /\ cleanupRes' = "nil"
    /\ UNCHANGED <<crName, live, creds, d, calls, credCalls, ret, faults,
                   updateRes, items, cursor, callNo, liveAtStart, prevCalls, prevFaults>>
    /\ UNCHANGED nonReconVars

\* start after removeExtraMirrors: an error is logged, start returns nil.
FinishStart ==
    /\ pc = "cleaned"
    /\ Return("nil")
    /\ UNCHANGED <<crName, live, creds, d, calls, credCalls, faults, updateRes,
                   items, cursor, cleanupRes, callNo, liveAtStart, prevCalls,
                   prevFaults>>
    /\ UNCHANGED nonReconVars


-----------------------------------------------------------------------------
(* Properties of start and removeExtraMirrors *)

\* The calls of the apply phase: those before the List call of the cleanup.
RECURSIVE ApplyCalls(_)
ApplyCalls(cs) ==
    IF cs = <<>> \/ Head(cs).op = "list" THEN <<>>
    ELSE <<Head(cs)>> \o ApplyCalls(Tail(cs))

\* The position of the first call with the given op in cs, 0 when none.
RECURSIVE FirstIndex(_, _, _)
FirstIndex(cs, op, i) ==
    IF i > Len(cs) THEN 0
    ELSE IF cs[i].op = op THEN i ELSE FirstIndex(cs, op, i + 1)

OpsOf(cs, op) == SelectSeq(cs, LAMBDA c : c.op = op)

\* The deployments that carry the class label app=AppName.
ClassLabelled == {n \in DOMAIN live : live[n].app}

\* C1: when the in-place update of the existing deployment is rejected
\* (immutable field) and no API call fails for an outside reason, a start call
\* that returned has issued, in its apply phase, exactly one delete and after
\* it exactly one create, both addressed to the daemon's own deployment
\* (resourceName), and the live deployment equals the desired plan.
C1_RecreateFallback ==
    (pc = "done" /\ updateRes = "immutable" /\ faults = {}) =>
        LET ap == ApplyCalls(calls)
            del == FirstIndex(ap, "delete", 1)
        IN  /\ OpsOf(ap, "delete") = <<Call("delete", ResourceName)>>
            /\ del > 0
            /\ SubSeq(ap, del + 1, Len(ap)) = <<Call("create", ResourceName)>>
            /\ Exists(ResourceName)
            /\ live[ResourceName] = DesiredDeployment

\* The previous start call found no deployment and created it.
CreatedBefore ==
    /\ Len(prevCalls) >= 2
    /\ prevCalls[1] = Call("create", ResourceName)
    /\ prevCalls[2].op = "list"

\* C2: when the first start call found the daemon's deployment absent and
\* created it, then all through the second call with the same plan (no API
\* call of either call failing for an outside reason) the cluster is as the
\* first call left it, the second call issues no delete, and exactly one live
\* deployment has the daemon's identity: the desired one.
C2_Convergence ==
    (callNo = 2 /\ CreatedBefore /\ prevFaults = {} /\ faults = {}) =>
        /\ live = liveAtStart
        /\ OpsOf(calls, "delete") = <<>>
        /\ Exists(ResourceName)
        /\ live[ResourceName] = DesiredDeployment
        /\ {n \in DOMAIN live : live[n].mirror = 0} = {ResourceName}

\* C2 witness: the second call ran to its end after a first call that created
\* the deployment, having gone through create (AlreadyExists) and update.
C2_Witness ==
    /\ callNo = 2 /\ CreatedBefore /\ prevFaults = {} /\ faults = {}
    /\ pc = "done" /\ ret = "nil"
    /\ Len(calls) = 3
    /\ calls[1] = Call("create", ResourceName)
    /\ calls[2] = Call("update", ResourceName)
    /\ Cardinality(DOMAIN live) >= 2

\* A cleanup pass ran to its end over a listing, and no API call of it failed.
CleanupPassed ==
    /\ cleanupRes = "nil"
    /\ Len(items) >= 1
    /\ faults \cap {"list", "legacyDelete", "authDelete"} = {}

\* C3 as stated: after a cleanup pass over N >= 1 listed deployments exactly
\* one class-labelled deployment remains, the one with identity 0, and the
\* credential of every removed identity is deleted.
C3_SingletonAsStated ==
    CleanupPassed =>
        /\ Cardinality(ClassLabelled) = 1
        /\ \A n \in ClassLabelled : live[n].mirror = 0
        /\ \A i \in 1..Len(items) :
              ~Exists(items[i].name) => items[i].mirror \notin creds

\* C3 amended: after a cleanup pass (no API call of it failing) over N >= 1
\* listed deployments, the listed deployments that remain are the one with
\* identity 0 and those whose rbd-mirror label is missing or unparseable;
\* every listed deployment with another identity is removed and its
\* credential is deleted.
C3_SingletonCleanup ==
    CleanupPassed =>
        \A i \in 1..Len(items) :
            IF Skipped(items[i])
              THEN /\ Exists(items[i].name)
                   /\ live[items[i].name].mirror = items[i].mirror
                   /\ items[i].name = ResourceName
                      \/ live[items[i].name] = liveAtStart[items[i].name]
              ELSE /\ ~Exists(items[i].name)
                   /\ items[i].mirror \notin creds

\* C3 witness: a pass over three or more listed deployments removed one and
\* left an unrecognised one beside the canonical instance.
C3_Witness ==
    /\ CleanupPassed
    /\ Len(items) >= 3
    /\ \E i \in 1..Len(items) : ~Skipped(items[i]) /\ ~Exists(items[i].name)
    /\ \E i \in 1..Len(items) : items[i].mirror = BadLabel /\ Exists(items[i].name)
    /\ Exists(ResourceName) /\ live[ResourceName].mirror = 0

\* C14: in every state of a start call its apply phase has issued at most one
\* update, at most one delete and at most two creates, the creates and the
\* update for the daemon's deployment; a delete is issued only after the one
\* update failed, a second create only after the one delete; and when the
\* second create has failed start has returned the error with that create as
\* its last call.
C14_BoundedApply ==
    LET ap == ApplyCalls(calls)
        del == FirstIndex(ap, "delete", 1)
    IN  /\ Len(OpsOf(ap, "update")) <= 1
        /\ Len(OpsOf(ap, "delete")) <= 1
        /\ Len(OpsOf(ap, "create")) <= 2
        /\ \A i \in 1..Len(ap) :
              ap[i].op \in {"create", "update"} => ap[i].name = ResourceName
        /\ del > 0 =>
              /\ updateRes \in {"immutable", "error"}
              /\ SubSeq(ap, 1, del - 1) =
                    <<Call("create", ResourceName), Call("update", ResourceName)>>
        /\ Len(OpsOf(ap, "create")) = 2 =>
              /\ del = 3
              /\ ap = SubSeq(ap, 1, 3) \o <<Call("create", ResourceName)>>
        /\ "recreate" \in faults =>
              /\ pc = "done" /\ ret = "err"
              /\ Len(calls) = 4
              /\ calls[4] = Call("create", ResourceName)

\* C14 witness: update rejected, delete done, recreate failed: start returned
\* the error after four calls.
C14_Witness ==
    /\ pc = "done" /\ ret = "err"
    /\ "recreate" \in faults
    /\ updateRes = "immutable"
    /\ Len(calls) = 4
    /\ calls[3].op = "delete"
    /\ ~Exists(ResourceName)

\* The items of the listing the loop does not skip.
Extra == {i \in 1..Len(items) : ~Skipped(items[i])}

\* The loop issued the Delete and the AuthDelete of item i.
Handled(i) ==
    /\ \E k \in 1..Len(calls) : calls[k] = Call("delete", items[i].name)
    /\ \E k \in 1..Len(credCalls) : credCalls[k] = items[i].mirror

\* C15: a start call that reached the cleanup returns nil, also when the List
\* or a Delete of the cleanup failed; and a cleanup whose List and AuthDelete
\* calls worked ran to the end of the listing whatever Delete failed: Delete
\* and AuthDelete were issued for every listed instance that is not skipped.
C15_CleanupBestEffort ==
    /\ (pc = "done" /\ OpsOf(calls, "list") # <<>>) => ret = "nil"
    /\ (pc \in {"cleaned", "done"} /\ OpsOf(calls, "list") # <<>>
          /\ faults \cap {"list", "authDelete"} = {}) =>
            /\ cleanupRes = "nil"
            /\ Len(items) > 1 => \A i \in Extra : Handled(i)

\* C15 witness: the Delete of a legacy mirror failed (it is still live), the
\* pass went on to a second legacy mirror, and start returned nil.
C15_Witness ==
    /\ pc = "done" /\ ret = "nil" /\ cleanupRes = "nil"
    /\ "legacyDelete" \in faults /\ "authDelete" \notin faults
    /\ Cardinality(Extra) = 2
    /\ \A i \in Extra : Handled(i)
    /\ \E i \in Extra : Exists(items[i].name) /\ i < Len(items)

\* C16 as stated: when an AuthDelete of the cleanup failed, the pass still
\* handled every listed instance that is not skipped, and start returned nil.
C16_ContinuesAsStated ==
    (pc = "done" /\ "authDelete" \in faults) =>
        /\ ret = "nil"
        /\ \A i \in Extra : Handled(i)

\* C16 amended: when an AuthDelete of the cleanup failed, the pass stopped at
\* that instance: removeExtraMirrors returned the error, the instances before
\* it were handled, those after it in the listing got neither a Delete nor an
\* AuthDelete and are as they were; start returns nil all the same.
C16_CredentialFailureStopsCleanup ==
    (pc \in {"cleaned", "done"} /\ "authDelete" \in faults) =>
        /\ cleanupRes = "err"
        /\ cursor \in Extra /\ Handled(cursor)
        /\ \A i \in Extra :
              /\ i < cursor => Handled(i) /\ items[i].mirror \notin creds
              /\ i > cursor =>
                    /\ ~Handled(i)
                    /\ Exists(items[i].name)
                    /\ live[items[i].name] = liveAtStart[items[i].name]
        /\ pc = "done" => ret = "nil"

\* C16 witness: the AuthDelete of the first of two legacy mirrors failed, the
\* second is untouched, and start returned nil.
C16_Witness ==
    /\ pc = "done" /\ ret = "nil" /\ cleanupRes = "err"
    /\ "authDelete" \in faults
    /\ Cardinality(Extra) = 2
    /\ \E i \in Extra : i > cursor /\ ~Handled(i) /\ Exists(items[i].name)

\* The calls of the cleanup: those after the List call.
CleanupCalls ==
    LET l == FirstIndex(calls, "list", 1)
    IN  IF l = 0 THEN <<>> ELSE SubSeq(calls, l + 1, Len(calls))

\* The names the listing gives for the instances with identity 0.
CanonicalNames == {items[i].name : i \in {k \in 1..Len(items) : items[k].mirror = 0}}

\* C22: in every state of the cleanup, whatever was listed and whatever API
\* call failed, no Delete of the cleanup names a listed deployment with
\* identity 0, no AuthDelete is issued for identity 0, and the deployment and
\* the credential of identity 0 are as the apply phase left them.
C22_CanonicalUntouched ==
    OpsOf(calls, "list") # <<>> =>
        /\ \A k \in 1..Len(CleanupCalls) :
              CleanupCalls[k].op = "delete" /\ CleanupCalls[k].name \notin CanonicalNames
        /\ \A k \in 1..Len(credCalls) : credCalls[k] # 0
        /\ Exists(ResourceName) /\ live[ResourceName] = DesiredDeployment
        /\ 0 \in creds

\* C22 witness: a cleanup over a listing with the canonical instance and two
\* legacy mirrors ran to its end with a failed Delete; the canonical instance
\* is listed and live.
C22_Witness ==
    /\ pc = "done" /\ cleanupRes = "nil"
    /\ "legacyDelete" \in faults
    /\ Len(CleanupCalls) = 2 /\ Len(credCalls) = 2
    /\ CanonicalNames = {ResourceName}
    /\ Exists(ResourceName)

\* C26: a start call issues the Delete of the fallback only when the update
\* was rejected for the immutable selector; when the update failed for
\* another reason no Delete is issued and the live deployments are those the
\* call found.
C26_FallbackOnlyOnImmutable ==
    /\ OpsOf(ApplyCalls(calls), "delete") # <<>> => updateRes = "immutable"
    /\ updateRes = "error" =>
          /\ OpsOf(ApplyCalls(calls), "delete") = <<>>
          /\ live = liveAtStart

\* The Delete of the fallback was issued and failed: an outside failure, or
\* NotFound because no deployment has the name it addresses.
FallbackDeleteFailed ==
    /\ OpsOf(ApplyCalls(calls), "delete") # <<>>
    /\ "delete" \in faults \/ DeleteTarget \notin DOMAIN liveAtStart

PlanSteps ==
    {"checkMemory", "ownerRef", "keyring", "makeDeployment", "setOwner", "annotate"}

\* C28: while start is in the steps before the first Create, and after it
\* returned from one of them (the plan is not the owned and annotated desired
\* deployment), it has issued no create, update, delete or list and no
\* credential deletion, and the live deployments are those the call found;
\* and the plan is owned and annotated when the first call is issued.
C28_NoMutationBeforePlan ==
    /\ (pc \in PlanSteps \/ (pc = "done" /\ d # DesiredDeployment)) =>
          /\ calls = <<>> /\ credCalls = <<>>
          /\ live = liveAtStart
    /\ calls # <<>> =>
          /\ calls[1] = Call("create", ResourceName)
          /\ d.owner /\ d.annotated /\ d = DesiredDeployment

\* C28 witness: setting the last-applied annotation failed: start returned
\* the error with the plan built and owned, and nothing was called.
C28_Witness ==
    /\ pc = "done" /\ ret = "err"
    /\ d.owner /\ ~d.annotated
    /\ calls = <<>>
    /\ Cardinality(DOMAIN live) >= 2

\* The apply phase of a start call that returned succeeded: the Create worked,
\* or the update was accepted, or the Delete and the second Create worked (a
\* second Create that no outside failure hit works exactly when the Delete
\* removed the deployment named resourceName).
ApplySucceeded ==
    LET ap == ApplyCalls(calls) IN
    \/ Len(ap) = 1 /\ "create" \notin faults
    \/ Len(ap) = 2 /\ updateRes = "ok"
    \/ Len(ap) = 4 /\ "recreate" \notin faults /\ ap[3].name = ResourceName

\* C29: the List call of the cleanup is issued only after the apply phase
\* (Create, or Create and update, or Create, update, Delete and Create) and
\* with the daemon's deployment live as planned; a start call that returned
\* has run the cleanup exactly when its apply phase succeeded, and it has not
\* run it when it returned an error.
C29_CleanupAfterApply ==
    /\ OpsOf(calls, "list") # <<>> =>
          /\ Len(OpsOf(calls, "list")) = 1
          /\ Len(ApplyCalls(calls)) \in {1, 2, 4}
          /\ ApplySucceeded
          /\ Exists(ResourceName) /\ live[ResourceName] = DesiredDeployment
    /\ (pc = "done" /\ calls # <<>>) =>
          /\ OpsOf(calls, "list") # <<>> <=> ApplySucceeded
          /\ ret = "err" => OpsOf(calls, "list") = <<>>

\* C29 witness: the cleanup ran after a Delete and a second Create that
\* worked.
C29_Witness ==
    /\ pc = "done" /\ ret = "nil"
    /\ Len(ApplyCalls(calls)) = 4
    /\ Len(calls) >= 6
    /\ calls[5].op = "list"

\* C30: the AuthDelete of an instance is attempted whenever its Delete was,
\* whatever the Delete returned: the cleanup has issued as many AuthDelete as
\* Delete calls, the k-th AuthDelete for the identity of the instance the
\* k-th Delete names.
C30_CredentialDeletedRegardless ==
    OpsOf(calls, "list") # <<>> =>
        /\ Len(credCalls) = Len(CleanupCalls)
        /\ \A k \in 1..Len(CleanupCalls) :
              \E i \in Extra :
                  /\ items[i].name = CleanupCalls[k].name
                  /\ items[i].mirror = credCalls[k]

\* C30 witness: the Delete of a legacy mirror failed and its AuthDelete
\* worked: the deployment is live and its credential is gone.
C30_Witness ==
    /\ "legacyDelete" \in faults /\ "authDelete" \notin faults
    /\ Len(credCalls) = 1
    /\ \E i \in Extra :
          /\ items[i].name = CleanupCalls[1].name
          /\ Exists(items[i].name)
          /\ live[items[i].name].mirror = items[i].mirror
          /\ items[i].mirror \notin creds

\* C17: a start call that returned nil has applied the daemon's deployment (it
\* went on to the cleanup after a create, an update or a recreate that worked,
\* and the deployment is live and owned), and no create, delete or recreate of
\* it failed.
C17_NothingSwallowed ==
    (pc = "done" /\ ret = "nil") =>
        /\ OpsOf(calls, "list") # <<>>
        /\ calls[1] = Call("create", ResourceName)
        /\ Exists(ResourceName) /\ live[ResourceName] = DesiredDeployment
        /\ faults \cap {"create", "delete", "recreate"} = {}

-----------------------------------------------------------------------------
(* osd/spec.go: Cluster.makeDeployment *)

PlanIdle ==
    /\ topo = <<>>
    /\ plan = <<>>
    /\ planState = "idle"

\* Strings are sequences of pieces: concatenation is \o, and two strings are
\* equal when they are built from the same pieces.
Str(x) == <<x>>

\* path.Join(dir, name)
Join(dir, name) == dir \o <<"/", name>>

\* strconv.Itoa(osd.ID)
osdID == Str("0")

\* osdProps.pvc.ClaimName, osdProps.metadataPVC.ClaimName, osdProps.walPVC.ClaimName
PvcClaim == Str("set1-data-0")
MetadataClaim == Str("set1-metadata-0")
WalClaim == Str("set1-wal-0")

\* const block of spec.go
rookBinariesMountPath == Str("/rook")
rookBinariesVolumeName == Str("rook-binaries")
activateOSDVolumeName == Str("activate-osd")
activateOSDMountPath == Str("/var/lib/ceph/osd/ceph-")
blockPVCMapperInitContainer == "blkdevmapper"
blockEncryptionKMSGetKEKInitContainer == "encryption-kms-get-kek"
blockEncryptionOpenInitContainer == "encryption-open"
blockEncryptionOpenMetadataInitContainer == "encryption-open-metadata"
blockEncryptionOpenWalInitContainer == "encryption-open-wal"
blockPVCMapperEncryptionInitContainer == "blkdevmapper-encryption"
blockPVCMapperEncryptionMetadataInitContainer == "blkdevmapper-metadata-encryption"
blockPVCMapperEncryptionWalInitContainer == "blkdevmapper-wal-encryption"
blockPVCMetadataMapperInitContainer == "blkdevmapper-metadata"
blockPVCWalMapperInitContainer == "blkdevmapper-wal"
activatePVCOSDInitContainer == "activate"
expandPVCOSDInitContainer == "expand-bluefs"
expandEncryptedPVCOSDInitContainer == "expand-encrypted-bluefs"
encryptedPVCStatusOSDInitContainer == "encrypted-block-status"
encryptionKeyFileName == "luks_key"
DmcryptBlockType == "block-dmcrypt"
DmcryptMetadataType == "db-dmcrypt"
DmcryptWalType == "wal-dmcrypt"
bluestoreBlockName == "block"
bluestoreMetadataName == "block.db"
bluestoreWalName == "block.wal"

\* The key management settings of the cluster spec, as the code reads them:
\*   "none":       KeyManagementService.IsEnabled() is false
\*   "vaultToken": enabled, provider Vault, IsTokenAuthEnabled()
\*   "vaultOther": enabled, provider Vault, another authentication
\*   "other":      enabled, another provider
KmsSettings == {"none", "vaultToken", "vaultOther", "other"}

KmsEnabled(t) == t.kms # "none"

\* What makeDeployment is given. metadata and wal say whether
\* metadataPVC.ClaimName and walPVC.ClaimName are set; they are set only for an
\* OSD on a PVC. cvMode is osd.CVMode as recorded ("" after an upgrade).
Topologies ==
    { t \in [onPVC : BOOLEAN, cvMode : {"", "lvm", "raw"}, metadata : BOOLEAN,
             wal : BOOLEAN, encrypted : BOOLEAN, encryptedDevice : BOOLEAN,
             kms : KmsSettings] :
        (t.metadata \/ t.wal) => t.onPVC }

VolumeMount(name, mountPath) == [name |-> name, mountPath |-> mountPath]

VolumeDevice(name, devicePath) == [name |-> name, devicePath |-> devicePath]

\* v1.Container: script is the program of Command/Args, params its
\* parameters, security the SecurityContext the code sets.
Container(name, script, params, mounts, devices, security) ==
    [name |-> name, script |-> script, params |-> params,
     mounts |-> mounts, devices |-> devices, security |-> security]

\* The bridge volume of a claim: the emptyDir "<claim>-bridge".
BridgeName(claim) == claim \o <<"-bridge">>

\* getPvcOSDBridgeMount(claimName): the bridge of the claim at /mnt.
getPvcOSDBridgeMount(claim) == VolumeMount(BridgeName(claim), Str("/mnt"))

\* getPvcOSDBridgeMountActivate(mountPath, claimName): the bridge of the
\* claim at mountPath.
getPvcOSDBridgeMountActivate(mountPath, claim) ==
    VolumeMount(BridgeName(claim), mountPath)

\* getDeviceMapperMount() / getDeviceMapperVolume(): the host's /dev/mapper.
getDeviceMapperMount == VolumeMount(Str("dev-mapper"), Str("/dev/mapper"))

\* getUdevVolume()
getUdevVolumeMount == VolumeMount(Str("run-udev"), Str("/run/udev"))

\* c.getEncryptionVolume(osdProps): the volume holding the key file of the
\* OSD's primary claim, mounted at the directory of encryptionKeyPath().
getEncryptionVolumeMount ==
    VolumeMount(PvcClaim \o <<"-encryption-key">>, Str("/etc/ceph"))

\* kms.VaultVolumeAndMount(...)
VaultVolumeMount == VolumeMount(Str("vault"), Str("/etc/vault"))

\* encryptionKeyPath(): the key file, named encryptionKeyFileName.
encryptionKeyPath == Join(Str("/etc/ceph"), encryptionKeyFileName)

\* encryptionDMName(pvcName, blockType), e.g. set1-data-2-8n462-block-dmcrypt
encryptionDMName(pvcName, blockType) == pvcName \o <<"-", blockType>>

\* encryptionDMPath(pvcName, blockType): the mapped device under /dev/mapper.
encryptionDMPath(pvcName, blockType) ==
    <<"/dev/mapper", "/">> \o encryptionDMName(pvcName, blockType)

\* encryptionBlockDestinationCopy(mountPath, blockType), e.g.
\* /var/lib/ceph/osd/ceph-0/block-tmp
encryptionBlockDestinationCopy(mountPath, blockType) ==
    Join(mountPath, blockType) \o <<"-tmp">>

\* controller.CephVolumeMounts(provisionConfig.DataPathMap, false)
CephVolumeMounts == <<VolumeMount(Str("ceph-daemon-volumes"), Str("/var/lib/ceph"))>>

\* controller.RookVolumeMounts(provisionConfig.DataPathMap, false)
RookVolumeMounts == <<VolumeMount(Str("rook-daemon-volumes"), Str("/var/lib/rook"))>>

\* osd.CVMode after "if osd.CVMode == "" { osd.CVMode = "lvm" }".
CVMode(t) == IF t.cvMode = "" THEN "lvm" ELSE t.cvMode

PvcLvm(t) == t.onPVC /\ CVMode(t) = "lvm"

PvcRaw(t) == t.onPVC /\ CVMode(t) = "raw"

\* The config init is also kept for a raw-mode OSD on PVC.
doConfigInitAlsoRaw(t) == t.onPVC

\* doConfigInit and doBinaryCopyInit: true unless one of the two later
\* branches of the command selection clears them.
doConfigInit(t) == PvcLvm(t)

doBinaryCopyInit(t) == PvcLvm(t)

\* The "activate" step of the local-device path is also added for a raw-mode
\* OSD on PVC.
doActivateOSDInitAlsoRaw(t) == ~PvcLvm(t)

\* doActivateOSDInit: set in the last branch of the command selection.
doActivateOSDInit(t) == ~PvcLvm(t) /\ ~PvcRaw(t)

\* osdDataDirPath := activateOSDMountPath + osdID
osdDataDirPath == activateOSDMountPath \o osdID

\* The init container of the config init ("ceph osd init").
configInitContainer ==
    Container("config-init", "ceph osd init", <<>>, RookVolumeMounts, <<>>,
              "securityContext")

getCopyBinariesContainer ==
    Container("copy-bins", "copy-binaries", <<rookBinariesMountPath>>,
              <<VolumeMount(rookBinariesVolumeName, rookBinariesMountPath)>>,
              <<>>, "unset")

getActivateOSDInitContainer(t) ==
    Container("activate", "activateOSDCode", <<osdID, Str(CVMode(t))>>,
              <<VolumeMount(activateOSDVolumeName, activateOSDMountPath \o osdID),
                VolumeMount(Str("devices"), Str("/dev")),
                VolumeMount(Str("rook-config-override"), Str("/etc/ceph"))>>
              \o (IF t.onPVC THEN <<getPvcOSDBridgeMount(PvcClaim)>> ELSE <<>>),
              <<>>, "PrivilegedContext")

getPVCInitContainer(t) ==
    Container(blockPVCMapperInitContainer, "blockDevMapper",
              <<Str("/") \o PvcClaim, Str("/mnt/") \o PvcClaim>>,
              <<getPvcOSDBridgeMount(PvcClaim)>>,
              <<VolumeDevice(PvcClaim, Str("/") \o PvcClaim)>>,
              "PodSecurityContext")

\* The first copy of a device goes to <mountPath>/<name> also when the OSD is
\* encrypted.
cpDestinationNameNoTemporary(t, mountPath, name) == Join(mountPath, name)

\* The destination of the first copy of a device: <mountPath>/<name>, or the
\* temporary copy when the OSD is encrypted.
cpDestinationName(t, mountPath, name) ==
    IF t.encrypted THEN encryptionBlockDestinationCopy(mountPath, name)
    ELSE Join(mountPath, name)

getPVCInitContainerActivate(mountPath, t) ==
    Container(blockPVCMapperInitContainer, "blockDevMapper",
              <<Str("/") \o PvcClaim, cpDestinationName(t, mountPath, bluestoreBlockName)>>,
              <<getPvcOSDBridgeMountActivate(mountPath, PvcClaim)>>,
              <<VolumeDevice(PvcClaim, Str("/") \o PvcClaim)>>,
              "PodSecurityContext")

\* The metadata copy step mounts a bridge of the metadata claim.
metadataBridgeClaimOwn == MetadataClaim

\* The claim whose bridge the metadata copy step mounts.
metadataBridgeClaim == PvcClaim

getPVCMetadataInitContainerActivate(mountPath, t) ==
    Container(blockPVCMetadataMapperInitContainer, "blockDevMapper",
              <<Str("/") \o MetadataClaim,
                cpDestinationName(t, mountPath, bluestoreMetadataName)>>,
              <<getPvcOSDBridgeMountActivate(mountPath, metadataBridgeClaim)>>,
              <<VolumeDevice(MetadataClaim, Str("/") \o MetadataClaim)>>,
              "PodSecurityContext")

getPVCWalInitContainerActivate(mountPath, t) ==
    Container(blockPVCWalMapperInitContainer, "blockDevMapper",
              <<Str("/") \o WalClaim,
                cpDestinationName(t, mountPath, bluestoreWalName)>>,
              <<getPvcOSDBridgeMountActivate(mountPath, PvcClaim)>>,
              <<VolumeDevice(WalClaim, Str("/") \o WalClaim)>>,
              "PodSecurityContext")

\* params: KEY_FILE_PATH, BLOCK_PATH, DM_NAME, DM_PATH
generateEncryptionOpenBlockContainer(containerName, pvcName, volumeMountPVCName, cryptBlockType, blockType, mountPath) ==
    Container(containerName, "openEncryptedBlock",
              <<encryptionKeyPath,
                encryptionBlockDestinationCopy(mountPath, blockType),
                encryptionDMName(pvcName, cryptBlockType),
                encryptionDMPath(pvcName, cryptBlockType)>>,
              <<getPvcOSDBridgeMountActivate(mountPath, volumeMountPVCName),
                getDeviceMapperMount>>,
              <<>>, "PrivilegedContext")

\* params: KEK_NAME (the secret of the primary claim), KEY_PATH
generateVaultGetKEK ==
    Container(blockEncryptionKMSGetKEKInitContainer, "getKEKFromVaultWithToken",
              <<Str("rook-ceph-osd-encryption-key-") \o PvcClaim, encryptionKeyPath>>,
              <<>>, <<>>, "unset")

AddMounts(c, ms) == [c EXCEPT !.mounts = c.mounts \o ms]

\* The claim whose bridge the open step of the metadata device mounts.
openMetadataBridgeClaim == PvcClaim

\* The key retrieval step is added whenever a KMS is enabled, whatever its
\* provider and authentication.
getPVCEncryptionOpenInitContainerActivateAnyKMS(mountPath, t) ==
    (IF KmsEnabled(t)
       THEN <<AddMounts(generateVaultGetKEK,
                        <<getEncryptionVolumeMount, VaultVolumeMount>>)>>
       ELSE <<>>)
    \o <<AddMounts(generateEncryptionOpenBlockContainer(
                       blockEncryptionOpenInitContainer, PvcClaim, PvcClaim,
                       DmcryptBlockType, bluestoreBlockName, mountPath),
                   <<getEncryptionVolumeMount>>)>>
    \o (IF t.metadata
          THEN <<AddMounts(generateEncryptionOpenBlockContainer(
                       blockEncryptionOpenMetadataInitContainer, MetadataClaim,
                       openMetadataBridgeClaim, DmcryptMetadataType,
                       bluestoreMetadataName, mountPath),
                   <<getEncryptionVolumeMount>>)>>
          ELSE <<>>)
    \o (IF t.wal
          THEN <<AddMounts(generateEncryptionOpenBlockContainer(
                       blockEncryptionOpenWalInitContainer, WalClaim, PvcClaim,
                       DmcryptWalType, bluestoreWalName, mountPath),
                   <<getEncryptionVolumeMount>>)>>
          ELSE <<>>)

\* The key retrieval step (only for Vault with token authentication), then
\* the open steps of the block, metadata and WAL devices.
getPVCEncryptionOpenInitContainerActivate(mountPath, t) ==
    (IF t.kms = "vaultToken"
       THEN <<AddMounts(generateVaultGetKEK,
                        <<getEncryptionVolumeMount, VaultVolumeMount>>)>>
       ELSE <<>>)
    \o <<AddMounts(generateEncryptionOpenBlockContainer(
                       blockEncryptionOpenInitContainer, PvcClaim, PvcClaim,
                       DmcryptBlockType, bluestoreBlockName, mountPath),
                   <<getEncryptionVolumeMount>>)>>
    \o (IF t.metadata
          THEN <<AddMounts(generateEncryptionOpenBlockContainer(
                       blockEncryptionOpenMetadataInitContainer, MetadataClaim,
                       openMetadataBridgeClaim, DmcryptMetadataType,
                       bluestoreMetadataName, mountPath),
                   <<getEncryptionVolumeMount>>)>>
          ELSE <<>>)
    \o (IF t.wal
          THEN <<AddMounts(generateEncryptionOpenBlockContainer(
                       blockEncryptionOpenWalInitContainer, WalClaim, PvcClaim,
                       DmcryptWalType, bluestoreWalName, mountPath),
                   <<getEncryptionVolumeMount>>)>>
          ELSE <<>>)

\* params: PVC_SOURCE, PVC_DEST
generateEncryptionCopyBlockContainer(containerName, pvcName, mountPath, volumeMountPVCName, blockName, blockType) ==
    Container(containerName, "blockDevMapper",
              <<encryptionDMPath(pvcName, blockType), Join(mountPath, blockName)>>,
              <<getPvcOSDBridgeMountActivate(mountPath, volumeMountPVCName),
                getDeviceMapperMount>>,
              <<>>, "PodSecurityContext")

\* The mapped device of the WAL claim is opened but not copied.
getPVCEncryptionInitContainerActivateNoWal(mountPath, t) ==
    <<generateEncryptionCopyBlockContainer(
          blockPVCMapperEncryptionInitContainer, PvcClaim, mountPath, PvcClaim,
          bluestoreBlockName, DmcryptBlockType)>>
    \o (IF t.metadata
          THEN <<generateEncryptionCopyBlockContainer(
                     blockPVCMapperEncryptionMetadataInitContainer, MetadataClaim,
                     mountPath, PvcClaim, bluestoreMetadataName, DmcryptMetadataType)>>
          ELSE <<>>)

\* The copies of the mapped devices: block, then metadata and WAL when the
\* claims are set.
getPVCEncryptionInitContainerActivate(mountPath, t) ==
    <<generateEncryptionCopyBlockContainer(
          blockPVCMapperEncryptionInitContainer, PvcClaim, mountPath, PvcClaim,
          bluestoreBlockName, DmcryptBlockType)>>
    \o (IF t.metadata
          THEN <<generateEncryptionCopyBlockContainer(
                     blockPVCMapperEncryptionMetadataInitContainer, MetadataClaim,
                     mountPath, PvcClaim, bluestoreMetadataName, DmcryptMetadataType)>>
          ELSE <<>>)
    \o (IF t.wal
          THEN <<generateEncryptionCopyBlockContainer(
                     blockPVCMapperEncryptionWalInitContainer, WalClaim,
                     mountPath, PvcClaim, bluestoreWalName, DmcryptWalType)>>
          ELSE <<>>)

getEncryptedStatusPVCInitContainer(mountPath, t) ==
    Container(encryptedPVCStatusOSDInitContainer, "cryptsetup status",
              <<encryptionDMName(PvcClaim, DmcryptBlockType)>>,
              <<getPvcOSDBridgeMountActivate(mountPath, PvcClaim)>>,
              <<>>, "PrivilegedContext")

getExpandEncryptedPVCInitContainer(mountPath, t) ==
    Container(expandEncryptedPVCOSDInitContainer, "cryptsetup resize",
              <<encryptionDMName(PvcClaim, DmcryptBlockType)>>,
              <<getPvcOSDBridgeMountActivate(mountPath, PvcClaim),
                getDeviceMapperMount>>,
              <<>>, "PrivilegedContext")

\* params: --dev osdDataBlockPath, --path osdDataPath
getActivatePVCInitContainer(t) ==
    Container(activatePVCOSDInitContainer, "prime-osd-dir",
              <<Join(activateOSDMountPath \o osdID, "block"),
                activateOSDMountPath \o osdID>>,
              <<getPvcOSDBridgeMountActivate(activateOSDMountPath \o osdID, PvcClaim)>>,
              <<VolumeDevice(PvcClaim, Join(activateOSDMountPath \o osdID, "block"))>>,
              "PrivilegedContext")

getExpandPVCInitContainer(t) ==
    Container(expandPVCOSDInitContainer, "bluefs-bdev-expand",
              <<activateOSDMountPath \o osdID>>,
              <<getPvcOSDBridgeMountActivate(activateOSDMountPath \o osdID, PvcClaim)>>,
              <<>>, "PrivilegedContext")

\* volumeMounts: the mounts of the daemon container (and of the chown step).
daemonVolumeMounts(t) ==
    CephVolumeMounts
    \o (IF ~t.onPVC THEN <<VolumeMount(Str("devices"), Str("/dev"))>> ELSE <<>>)
    \o <<getUdevVolumeMount>>
    \o (IF t.encrypted THEN <<getDeviceMapperMount>> ELSE <<>>)
    \o (IF doBinaryCopyInit(t) THEN <<getCopyBinariesContainer.mounts[1]>> ELSE <<>>)
    \o (IF doActivateOSDInit(t) THEN <<getActivateOSDInitContainer(t).mounts[1]>> ELSE <<>>)
    \o (IF PvcLvm(t) THEN <<getPvcOSDBridgeMount(PvcClaim)>> ELSE <<>>)
    \o (IF PvcRaw(t)
          THEN <<getPvcOSDBridgeMountActivate(osdDataDirPath, PvcClaim)>>
          ELSE <<>>)

\* Host IPC follows the encryption flag of the PVC alone.
hostIPCEncryptedPVCOnly(t) == t.encrypted

\* hostIPC := osdProps.storeConfig.EncryptedDevice || osdProps.encrypted
hostIPC(t) == t.encryptedDevice \/ t.encrypted

\* dataPath of the chown step: the OSD directory for raw mode on PVC.
chownDataPath(t) == IF PvcRaw(t) THEN activateOSDMountPath \o osdID ELSE <<>>

\* controller.ChownCephDataDirsInitContainer(...)
chownContainer(t) ==
    Container("chown-container-data-dir", "chown", <<chownDataPath(t)>>,
              daemonVolumeMounts(t), <<>>, "securityContext")

\* The mapped devices are copied before they are opened.
encryptionInitContainersCopyFirst(t) ==
    getPVCEncryptionInitContainerActivate(osdDataDirPath, t)
    \o getPVCEncryptionOpenInitContainerActivate(osdDataDirPath, t)
    \o <<getEncryptedStatusPVCInitContainer(osdDataDirPath, t)>>
    \o <<getExpandEncryptedPVCInitContainer(osdDataDirPath, t)>>

\* The mapped device is resized before it is opened.
encryptionInitContainersResizeFirst(t) ==
    <<getExpandEncryptedPVCInitContainer(osdDataDirPath, t)>>
    \o getPVCEncryptionOpenInitContainerActivate(osdDataDirPath, t)
    \o getPVCEncryptionInitContainerActivate(osdDataDirPath, t)
    \o <<getEncryptedStatusPVCInitContainer(osdDataDirPath, t)>>

\* The steps of the encrypted raw-mode OSD on PVC.
encryptionInitContainers(t) ==
    getPVCEncryptionOpenInitContainerActivate(osdDataDirPath, t)
    \o getPVCEncryptionInitContainerActivate(osdDataDirPath, t)
    \o <<getEncryptedStatusPVCInitContainer(osdDataDirPath, t)>>
    \o <<getExpandEncryptedPVCInitContainer(osdDataDirPath, t)>>

\* The steps of the raw-mode OSD on PVC.
rawInitContainers(t) ==
    <<getPVCInitContainerActivate(osdDataDirPath, t)>>
    \o (IF t.metadata
          THEN <<getPVCMetadataInitContainerActivate(osdDataDirPath, t)>>
          ELSE <<>>)
    \o (IF t.wal THEN <<getPVCWalInitContainerActivate(osdDataDirPath, t)>> ELSE <<>>)
    \o (IF t.encrypted THEN encryptionInitContainers(t) ELSE <<>>)
    \o <<getActivatePVCInitContainer(t)>>
    \o <<getExpandPVCInitContainer(t)>>

\* The chown step is appended before the activation step of an OSD that is
\* not on a PVC.
initContainersChownBeforeActivate(t) ==
    (IF doConfigInit(t) THEN <<configInitContainer>> ELSE <<>>)
    \o (IF doBinaryCopyInit(t) THEN <<getCopyBinariesContainer>> ELSE <<>>)
    \o (IF PvcLvm(t) THEN <<getPVCInitContainer(t)>> ELSE <<>>)
    \o (IF PvcRaw(t) THEN rawInitContainers(t) ELSE <<>>)
    \o <<chownContainer(t)>>
    \o (IF doActivateOSDInit(t) THEN <<getActivateOSDInitContainer(t)>> ELSE <<>>)

\* The device copy of an lvm OSD on PVC is appended before the config init.
initContainersCopyBeforeConfig(t) ==
    (IF PvcLvm(t) THEN <<getPVCInitContainer(t)>> ELSE <<>>)
    \o (IF doConfigInit(t) THEN <<configInitContainer>> ELSE <<>>)
    \o (IF doBinaryCopyInit(t) THEN <<getCopyBinariesContainer>> ELSE <<>>)
    \o (IF PvcRaw(t) THEN rawInitContainers(t) ELSE <<>>)
    \o (IF doActivateOSDInit(t) THEN <<getActivateOSDInitContainer(t)>> ELSE <<>>)
    \o <<chownContainer(t)>>

\* initContainers, in the order makeDeployment appends them.
initContainers(t) ==
    (IF doConfigInit(t) THEN <<configInitContainer>> ELSE <<>>)
    \o (IF doBinaryCopyInit(t) THEN <<getCopyBinariesContainer>> ELSE <<>>)
    \o (IF PvcLvm(t) THEN <<getPVCInitContainer(t)>> ELSE <<>>)
    \o (IF PvcRaw(t) THEN rawInitContainers(t) ELSE <<>>)
    \o (IF doActivateOSDInit(t) THEN <<getActivateOSDInitContainer(t)>> ELSE <<>>)
    \o <<chownContainer(t)>>

\* The daemon container "osd": started through tini and rook for an lvm OSD
\* on PVC, as ceph-osd otherwise.
osdContainer(t) ==
    Container("osd", IF PvcLvm(t) THEN "tini rook ceph osd start" ELSE "ceph-osd",
              <<osdID>>, daemonVolumeMounts(t), <<>>, "securityContext")

\* The pod template of the deployment makeDeployment returns.
makeDeployment(t) ==
    [initContainers |-> initContainers(t),
     containers |-> <<osdContainer(t)>>,
     hostIPC |-> hostIPC(t)]

PlanInit ==
    /\ topo \in Topologies
    /\ plan = <<>>
    /\ planState = "input"

\* One call of makeDeployment: it returns the deployment, or an error when
\* the owner reference, the multus annotation or the topology affinity fails.
MakeDeployment ==
    /\ planState = "input"
    /\ \E ok \in BOOLEAN :
        IF ok THEN plan' = makeDeployment(topo) /\ planState' = "built"
              ELSE plan' = <<>> /\ planState' = "error"
    /\ UNCHANGED topo
    /\ UNCHANGED nonPlanVars

-----------------------------------------------------------------------------
(* Properties of the plan makeDeployment builds *)

Names(cs) == [i \in 1..Len(cs) |-> cs[i].name]

\* All containers of the plan: the init steps, then the daemon container.
AllContainers == plan.initContainers \o plan.containers

MountsOf(c) == {c.mounts[i] : i \in 1..Len(c.mounts)}

IsBridge(m) == m.name \in {BridgeName(c) : c \in {PvcClaim, MetadataClaim, WalClaim}}

\* The mounts of bridge volumes in the plan.
BridgeMounts ==
    UNION {{m \in MountsOf(AllContainers[i]) : IsBridge(m)} :
           i \in 1..Len(AllContainers)}

\* The steps that handle the metadata or the WAL claim.
SecondaryStepNames ==
    {blockPVCMetadataMapperInitContainer, blockPVCWalMapperInitContainer,
     blockEncryptionOpenMetadataInitContainer, blockEncryptionOpenWalInitContainer,
     blockPVCMapperEncryptionMetadataInitContainer,
     blockPVCMapperEncryptionWalInitContainer}

\* C4: in every built plan all mounts of a bridge are mounts of the primary
\* claim's bridge at one and the same path (init steps and daemon container
\* alike), and every step that handles the metadata or WAL claim mounts that
\* bridge.
C4_BridgeConsistency ==
    planState = "built" =>
        /\ \A m \in BridgeMounts : m.name = BridgeName(PvcClaim)
        /\ \A m1, m2 \in BridgeMounts : m1.mountPath = m2.mountPath
        /\ \A i \in 1..Len(AllContainers) :
              AllContainers[i].name \in SecondaryStepNames =>
                  \E m \in MountsOf(AllContainers[i]) : m.name = BridgeName(PvcClaim)

\* C4 witness: an encrypted raw plan with metadata and WAL claims, whose six
\* secondary steps and daemon container mount the bridge.
C4_Witness ==
    /\ planState = "built"
    /\ topo.metadata /\ topo.wal /\ topo.encrypted
    /\ Cardinality({i \in 1..Len(AllContainers) :
                       AllContainers[i].name \in SecondaryStepNames}) = 6
    /\ \E m \in MountsOf(plan.containers[1]) : IsBridge(m)
    /\ BridgeMounts # {}

\* The topology of the end-to-end example, but for the activation mode:
\* OSD on PVC, encrypted, metadata claim, no WAL claim, Vault with token.
EndToEndTopology ==
    /\ topo.onPVC /\ topo.encrypted /\ topo.metadata /\ ~topo.wal
    /\ topo.kms = "vaultToken"

\* The init steps of the end-to-end example from key retrieval on.
EndToEndSteps ==
    <<blockEncryptionKMSGetKEKInitContainer,
      blockEncryptionOpenInitContainer,
      blockEncryptionOpenMetadataInitContainer,
      blockPVCMapperEncryptionInitContainer,
      blockPVCMapperEncryptionMetadataInitContainer,
      encryptedPVCStatusOSDInitContainer,
      expandEncryptedPVCOSDInitContainer,
      activatePVCOSDInitContainer,
      expandPVCOSDInitContainer,
      "chown-container-data-dir">>

\* cs ends with the steps sfx, in this order and with nothing in between.
EndsWith(cs, sfx) ==
    /\ Len(cs) >= Len(sfx)
    /\ SubSeq(cs, Len(cs) - Len(sfx) + 1, Len(cs)) = sfx

\* The copy and open steps of the encryption sub-pipeline.
CopyOpenStepNames ==
    {blockEncryptionOpenInitContainer, blockEncryptionOpenMetadataInitContainer,
     blockEncryptionOpenWalInitContainer, blockPVCMapperEncryptionInitContainer,
     blockPVCMapperEncryptionMetadataInitContainer,
     blockPVCMapperEncryptionWalInitContainer, blockPVCMapperInitContainer,
     blockPVCMetadataMapperInitContainer, blockPVCWalMapperInitContainer}

CopyOpenStepsUsePrimaryBridge ==
    \A i \in 1..Len(plan.initContainers) :
        plan.initContainers[i].name \in CopyOpenStepNames =>
            {m \in MountsOf(plan.initContainers[i]) : IsBridge(m)}
                = {getPvcOSDBridgeMountActivate(osdDataDirPath, PvcClaim)}

\* C5 as stated: in volume-manager (lvm) mode the end-to-end topology yields
\* key retrieval, block open, metadata open, block copy, metadata copy,
\* encrypted status, encrypted resize, prime activation, capacity expand,
\* ownership normalization and then the daemon container.
C5_EndToEndAsStated ==
    (planState = "built" /\ EndToEndTopology /\ CVMode(topo) = "lvm") =>
        /\ EndsWith(Names(plan.initContainers), EndToEndSteps)
        /\ Names(plan.containers) = <<"osd">>
        /\ CopyOpenStepsUsePrimaryBridge

\* C5 amended: in raw mode (direct activation) the init steps of the
\* end-to-end topology are the device-to-bridge copies of block and metadata
\* followed by exactly the steps of the example, then the daemon container;
\* every copy and open step mounts the single bridge of the primary claim.
C5_EndToEnd ==
    (planState = "built" /\ EndToEndTopology /\ CVMode(topo) = "raw") =>
        /\ Names(plan.initContainers) =
              <<blockPVCMapperInitContainer, blockPVCMetadataMapperInitContainer>>
              \o EndToEndSteps
        /\ Names(plan.containers) = <<"osd">>
        /\ CopyOpenStepsUsePrimaryBridge

\* C5 witness: the plan of the end-to-end topology in raw mode is built.
C5_Witness ==
    /\ planState = "built" /\ EndToEndTopology /\ CVMode(topo) = "raw"
    /\ Len(plan.initContainers) = 12

\* The positions of the init steps with the given name.
Pos(name) ==
    {i \in 1..Len(plan.initContainers) : plan.initContainers[i].name = name}

C19_ResizeAfterOpen ==
    planState = "built" =>
        /\ \A i \in Pos(expandEncryptedPVCOSDInitContainer) :
              \E j \in Pos(blockEncryptionOpenInitContainer) : j < i
        /\ (PvcRaw(topo) /\ topo.encrypted) =>
              Cardinality(Pos(expandEncryptedPVCOSDInitContainer)) = 1
        /\ \A i \in Pos(expandPVCOSDInitContainer) :
              \E j \in Pos(activatePVCOSDInitContainer) : j < i

\* C19 witness: a plan with open, encrypted resize, activation and expand.
C19_Witness ==
    /\ planState = "built" /\ PvcRaw(topo) /\ topo.encrypted
    /\ \E o \in Pos(blockEncryptionOpenInitContainer),
          r \in Pos(expandEncryptedPVCOSDInitContainer),
          a \in Pos(activatePVCOSDInitContainer),
          x \in Pos(expandPVCOSDInitContainer) : o < r /\ r < a /\ a < x

\* The phase of an init step: 1 config materialization, 2 binary staging,
\* 3 copy of the primary device, 4 of the metadata device, 5 of the WAL
\* device, 6 encryption, 7 activation and capacity expansion (with the
\* encrypted resize), 8 ownership normalization; 0 for any other step.
PhaseOf(c) ==
    CASE c.script = "ceph osd init" -> 1
      [] c.script = "copy-binaries" -> 2
      [] c.name = blockPVCMapperInitContainer -> 3
      [] c.name = blockPVCMetadataMapperInitContainer -> 4
      [] c.name = blockPVCWalMapperInitContainer -> 5
      [] c.name \in {blockEncryptionKMSGetKEKInitContainer,
                     blockEncryptionOpenInitContainer,
                     blockEncryptionOpenMetadataInitContainer,
                     blockEncryptionOpenWalInitContainer,
                     blockPVCMapperEncryptionInitContainer,
                     blockPVCMapperEncryptionMetadataInitContainer,
                     blockPVCMapperEncryptionWalInitContainer,
                     encryptedPVCStatusOSDInitContainer} -> 6
      [] c.name \in {expandEncryptedPVCOSDInitContainer,
                     activatePVCOSDInitContainer,
                     expandPVCOSDInitContainer} -> 7
      [] c.script = "chown" -> 8
      [] OTHER -> 0

\* Within the encryption phase: 1 key retrieval, 2 open, 3 copy of the mapped
\* device, 4 status.
EncryptionRank(c) ==
    CASE c.script = "getKEKFromVaultWithToken" -> 1
      [] c.script = "openEncryptedBlock" -> 2
      [] c.script = "blockDevMapper" -> 3
      [] OTHER -> 4

\* C20: in every built plan every init step belongs to a phase, the phases of
\* the init steps never decrease along the plan, the steps of the encryption
\* phase come as key retrieval, open, copy of the mapped device, and the
\* daemon container is the one container after the init steps.
C20_PhaseOrder ==
    planState = "built" =>
        LET ic == plan.initContainers IN
        /\ \A i \in 1..Len(ic) : PhaseOf(ic[i]) \in 1..8
        /\ \A i, j \in 1..Len(ic) :
              i < j =>
                /\ PhaseOf(ic[i]) <= PhaseOf(ic[j])
                /\ (PhaseOf(ic[i]) = 6 /\ PhaseOf(ic[j]) = 6) =>
                      EncryptionRank(ic[i]) <= EncryptionRank(ic[j])
        /\ Names(plan.containers) = <<"osd">>

\* C20 witness: a plan whose init steps go through the phases 3 to 8, and
\* (in another behaviour, the lvm plan) through 1, 2, 3 and 8.
C20_Witness ==
    /\ planState = "built"
    /\ \/ {PhaseOf(plan.initContainers[i]) : i \in 1..Len(plan.initContainers)}
            = 3..8
       \/ {PhaseOf(plan.initContainers[i]) : i \in 1..Len(plan.initContainers)}
            = {1, 2, 3, 8}
    /\ topo.encrypted /\ topo.kms = "vaultToken" /\ topo.wal

\* C21 as stated: the plan has host IPC whenever the topology is encrypted
\* (the PVC flag or the encrypted-device store setting) or the OSD is not on a
\* PVC (the local-device activation path).
C21_HostIPCAsStated ==
    planState = "built" =>
        ((topo.encrypted \/ topo.encryptedDevice \/ ~topo.onPVC) => plan.hostIPC)

\* C21 amended: the plan has host IPC exactly when the topology is encrypted:
\* the encryption flag of the PVC or the encrypted-device store setting of a
\* local device is set. An OSD without encryption has no host IPC, on a PVC
\* or not.
C21_HostIPC ==
    planState = "built" =>
        (plan.hostIPC <=> (topo.encrypted \/ topo.encryptedDevice))

\* C21 witness: a local-device OSD with the encrypted-device store setting
\* (and no PVC encryption flag), activated by the "activate" step, has host
\* IPC.
C21_Witness ==
    /\ planState = "built"
    /\ ~topo.onPVC /\ topo.encryptedDevice /\ ~topo.encrypted
    /\ Pos("activate") # {}
    /\ plan.hostIPC

\* The positions of the key retrieval step and of the open steps in the plan.
KekPos == Pos(blockEncryptionKMSGetKEKInitContainer)

OpenPos ==
    {i \in 1..Len(plan.initContainers) :
        plan.initContainers[i].script = "openEncryptedBlock"}

\* Every open step reads the key file at encryptionKeyPath() from the
\* encryption volume of the primary claim.
OpenStepsReadKeyFile ==
    \A o \in OpenPos :
        /\ plan.initContainers[o].params[1] = encryptionKeyPath
        /\ getEncryptionVolumeMount \in MountsOf(plan.initContainers[o])

C25_UniqueStepNames ==
    planState = "built" =>
        \A i, j \in 1..Len(plan.initContainers) :
            plan.initContainers[i].name = plan.initContainers[j].name => i = j

\* C25 witness: the longest plan, fifteen init steps with fifteen names, one
\* of them the "activate" name that the local-device path uses as well.
C25_Witness ==
    /\ planState = "built"
    /\ Cardinality({plan.initContainers[i].name :
                       i \in 1..Len(plan.initContainers)}) = 15
    /\ Pos(activatePVCOSDInitContainer) # {}
    /\ getActivateOSDInitContainer(topo).name = activatePVCOSDInitContainer

\* The init step with the given name (there is one).
StepNamed(name) == plan.initContainers[CHOOSE i \in Pos(name) : TRUE]

\* The volume types of an OSD on PVC and, for each, the steps that handle it,
\* its claim, its file name in the data directory and its dm-crypt type.
VolumeTypes == {"block", "metadata", "wal"}

HasVolumeType(t, v) ==
    CASE v = "block" -> TRUE [] v = "metadata" -> t.metadata [] v = "wal" -> t.wal

ChainOf(v) ==
    CASE v = "block" ->
           [copy |-> "blkdevmapper", open |-> "encryption-open",
            encCopy |-> "blkdevmapper-encryption", claim |-> PvcClaim,
            file |-> "block", dm |-> "block-dmcrypt"]
      [] v = "metadata" ->
           [copy |-> "blkdevmapper-metadata", open |-> "encryption-open-metadata",
            encCopy |-> "blkdevmapper-metadata-encryption", claim |-> MetadataClaim,
            file |-> "block.db", dm |-> "db-dmcrypt"]
      [] v = "wal" ->
           [copy |-> "blkdevmapper-wal", open |-> "encryption-open-wal",
            encCopy |-> "blkdevmapper-wal-encryption", claim |-> WalClaim,
            file |-> "block.wal", dm |-> "wal-dmcrypt"]

\* <dataDir>/<file>, with dataDir = /var/lib/ceph/osd/ceph-<id>
InDataDir(file) == <<"/var/lib/ceph/osd/ceph-", "0", "/", file>>

\* C31: in every built plan of a raw OSD on PVC, for each volume type that is
\* there: the device copy reads the claim's device; when the OSD is not
\* encrypted it writes <dataDir>/<file>; when it is encrypted it writes a
\* temporary path (not <dataDir>/<file>), the open step opens that path into
\* the mapped device <claim>-<dm type> under /dev/mapper, and the encrypted
\* copy reads that mapped device and writes <dataDir>/<file>; the prime
\* activation reads <dataDir>/block in the data directory.
C31_PathChaining ==
    (planState = "built" /\ PvcRaw(topo)) =>
        /\ \A v \in {w \in VolumeTypes : HasVolumeType(topo, w)} :
              LET c == ChainOf(v)
                  copy == StepNamed(c.copy)
              IN  /\ Pos(c.copy) # {}
                  /\ copy.params[1] = <<"/">> \o c.claim
                  /\ IF ~topo.encrypted
                       THEN /\ copy.params[2] = InDataDir(c.file)
                            /\ Pos(c.open) = {} /\ Pos(c.encCopy) = {}
                       ELSE /\ Pos(c.open) # {} /\ Pos(c.encCopy) # {}
                            /\ copy.params[2] # InDataDir(c.file)
                            /\ StepNamed(c.open).params[2] = copy.params[2]
                            /\ StepNamed(c.open).params[3] = c.claim \o <<"-", c.dm>>
                            /\ StepNamed(c.open).params[4] =
                                  <<"/dev/mapper", "/">> \o c.claim \o <<"-", c.dm>>
                            /\ StepNamed(c.encCopy).params[1] = StepNamed(c.open).params[4]
                            /\ StepNamed(c.encCopy).params[2] = InDataDir(c.file)
        /\ Pos(activatePVCOSDInitContainer) # {}
        /\ StepNamed(activatePVCOSDInitContainer).params[1] = InDataDir("block")
        /\ StepNamed(activatePVCOSDInitContainer).params[2] =
              <<"/var/lib/ceph/osd/ceph-", "0">>

\* C31 witness: an encrypted raw OSD on PVC with metadata and WAL claims; the
\* WAL chain goes through the temporary copy and the mapped device.
C31_Witness ==
    /\ planState = "built" /\ PvcRaw(topo)
    /\ topo.encrypted /\ topo.metadata /\ topo.wal
    /\ StepNamed("encryption-open-wal").params[2] = StepNamed("blkdevmapper-wal").params[2]
    /\ StepNamed("blkdevmapper-wal-encryption").params[1] =
          StepNamed("encryption-open-wal").params[4]

\* The names of the steps between the device copies and the prime activation
\* in the plan of an encrypted raw OSD on PVC, in the order claimed.
EncryptionPipeline(t) ==
    (IF Pos("encryption-kms-get-kek") # {} THEN <<"encryption-kms-get-kek">> ELSE <<>>)
    \o <<"encryption-open">>
    \o (IF t.metadata THEN <<"encryption-open-metadata">> ELSE <<>>)
    \o (IF t.wal THEN <<"encryption-open-wal">> ELSE <<>>)
    \o <<"blkdevmapper-encryption">>
    \o (IF t.metadata THEN <<"blkdevmapper-metadata-encryption">> ELSE <<>>)
    \o (IF t.wal THEN <<"blkdevmapper-wal-encryption">> ELSE <<>>)
    \o <<"encrypted-block-status", "expand-encrypted-bluefs">>

\* The positions of the copies of the mapped devices.
EncCopyPos ==
    {i \in 1..Len(plan.initContainers) :
        plan.initContainers[i].name \in {ChainOf(v).encCopy : v \in VolumeTypes}}

\* C32: in every built plan of an encrypted raw OSD on PVC the steps from
\* after the last device copy to before the prime activation are: the key
\* retrieval (when the plan has one), the open steps for block, metadata and
\* WAL, the copies of the mapped devices for block, metadata and WAL, the
\* encrypted status, the encrypted resize; a volume type has an open step
\* exactly when it has a copy of its mapped device (and exactly when its
\* claim is set), and every open step precedes every such copy.
C32_EncryptionPipeline ==
    (planState = "built" /\ PvcRaw(topo) /\ topo.encrypted) =>
        LET first == 1 + Cardinality({v \in VolumeTypes : HasVolumeType(topo, v)})
            last == Len(plan.initContainers) - 3
        IN  /\ Names(SubSeq(plan.initContainers, first, last)) = EncryptionPipeline(topo)
            /\ \A i \in 1..(first - 1) : plan.initContainers[i].script = "blockDevMapper"
            /\ plan.initContainers[last + 1].name = activatePVCOSDInitContainer
            /\ \A v \in VolumeTypes :
                  /\ Pos(ChainOf(v).open) # {} <=> Pos(ChainOf(v).encCopy) # {}
                  /\ Pos(ChainOf(v).open) # {} <=> HasVolumeType(topo, v)
            /\ \A o \in OpenPos : \A c \in EncCopyPos : o < c

\* C32 witness: the plan with key retrieval, three open steps and three
\* copies of mapped devices: a pipeline of nine steps.
C32_Witness ==
    /\ planState = "built" /\ PvcRaw(topo) /\ topo.encrypted
    /\ Cardinality(OpenPos) = 3 /\ Cardinality(EncCopyPos) = 3
    /\ Len(EncryptionPipeline(topo)) = 9

\* C33: in every built plan an init step that has a claim attached as a raw
\* volume device runs with neither of the privileged security contexts.
C33_NoDeviceInPrivilegedStep ==
    planState = "built" =>
        \A i \in 1..Len(plan.initContainers) :
            plan.initContainers[i].devices # <<>> =>
                plan.initContainers[i].security \notin {"PrivilegedContext", "securityContext"}

\* The programs of the init steps, in order.
Scripts(cs) == [i \in 1..Len(cs) |-> cs[i].script]

\* C34: the built plan of an OSD on PVC in lvm mode (recorded as "lvm" or
\* empty) has exactly the init steps config init, binary copy, copy of the
\* primary claim's device to its bridge, chown, in this order, whatever the
\* encryption flags, the key management setting and the metadata and WAL
\* claims; and no plan of another topology has a config init or a binary
\* copy step.
C34_LvmPlan ==
    planState = "built" =>
        IF topo.onPVC /\ topo.cvMode \in {"", "lvm"}
          THEN /\ Scripts(plan.initContainers) =
                    <<"ceph osd init", "copy-binaries", "blockDevMapper", "chown">>
               /\ plan.initContainers[3].params[1] = <<"/">> \o PvcClaim
               /\ plan.initContainers[3].devices = <<VolumeDevice(PvcClaim, <<"/">> \o PvcClaim)>>
               /\ plan.initContainers[3].mounts = <<VolumeMount(PvcClaim \o <<"-bridge">>, <<"/mnt">>)>>
          ELSE \A i \in 1..Len(plan.initContainers) :
                  plan.initContainers[i].script \notin {"ceph osd init", "copy-binaries"}

\* C34 witness: the recorded mode is empty, the OSD is encrypted with Vault
\* token KMS and has metadata and WAL claims: four init steps all the same.
C34_Witness ==
    /\ planState = "built"
    /\ topo.onPVC /\ topo.cvMode = "" /\ topo.encrypted /\ topo.kms = "vaultToken"
    /\ topo.metadata /\ topo.wal
    /\ Len(plan.initContainers) = 4
    /\ plan.initContainers[1].script = "ceph osd init"

-----------------------------------------------------------------------------
(* osd/spec.go: blockDevMapper, the script of the device copy steps *)

\* Bound: the number of runs of the script (pod restarts) in one behaviour.
MaxRuns == 3

\* Device numbers of block devices: SCSI disks have the majors 8, 65..71 and
\* 128..135, device-mapper devices a dynamic major such as 253.
Majors == {8, 130, 253}
Minors == {0, 16, 32}

Node(major, minor) == [major |-> major, minor |-> minor]

NoNode == Node(0 - 1, 0 - 1)

BlockNodes == {Node(ma, mi) : ma \in Majors, mi \in Minors}

\* The digits of n in hexadecimal, most significant first, no padding.
RECURSIVE HexDigits(_)
HexDigits(n) == IF n < 16 THEN <<n>> ELSE HexDigits(n \div 16) \o <<n % 16>>

\* stat --format '%t%T': the major and the minor device number in
\* hexadecimal, one right after the other.
StatMajMin(node) == HexDigits(node.major) \o HexDigits(node.minor)

CopyIdle ==
    /\ cpSource = NoNode
    /\ cpDest = NoNode
    /\ cpWrites = 0
    /\ cpExit = 0 - 1
    /\ cpRuns = 0
    /\ cpBefore = <<>>

CopyInit ==
    /\ cpSource \in BlockNodes
    /\ cpDest \in BlockNodes \cup {NoNode}
    /\ cpWrites = 0
    /\ cpExit = 0 - 1
    /\ cpRuns = 0
    /\ cpBefore = <<>>

\* The script removes an existing destination whatever its numbers.
CpArgsAlwaysRemove(source, dest) ==
    IF dest = NoNode THEN "plain" ELSE "remove-destination"

\* The options the script adds to CP_ARGS: none when PVC_DEST is no block
\* special file ([ -b "$PVC_DEST" ]), --no-clobber when the two stat outputs
\* are equal, --remove-destination otherwise.
CpArgs(source, dest) ==
    IF dest = NoNode THEN "plain"
    ELSE IF StatMajMin(source) = StatMajMin(dest) THEN "no-clobber"
    ELSE "remove-destination"

\* cp --archive --dereference [option] PVC_SOURCE PVC_DEST: creates the
\* destination node as a copy of the source node; with --no-clobber an
\* existing destination is left alone (cp exits 0); with
\* --remove-destination it is removed first.
CpWritesDest(args) == args # "no-clobber"

\* One run of blockDevMapper.
RunBlockDevMapper ==
    /\ cpRuns < MaxRuns
    /\ cpRuns' = cpRuns + 1
    /\ cpBefore' = [source |-> cpSource, dest |-> cpDest, writes |-> cpWrites]
    /\ LET args == CpArgs(cpSource, cpDest) IN
        /\ cpDest' = IF CpWritesDest(args) THEN cpSource ELSE cpDest
        /\ cpWrites' = IF CpWritesDest(args) THEN cpWrites + 1 ELSE cpWrites
    /\ cpExit' = 0
    /\ UNCHANGED cpSource
    /\ UNCHANGED nonCopyVars

\* Between two runs the volume is re-attached: the kernel gives the device
\* at PVC_SOURCE other numbers.
Reattach ==
    /\ cpRuns >= 1
    /\ cpRuns < MaxRuns
    /\ cpExit = 0
    /\ \E n \in BlockNodes \ {cpSource} : cpSource' = n
    /\ UNCHANGED <<cpDest, cpWrites, cpExit, cpRuns, cpBefore>>
    /\ UNCHANGED nonCopyVars

-----------------------------------------------------------------------------
(* Properties of blockDevMapper *)

CopyRan == cpRuns >= 1 /\ cpBefore # <<>>

\* C6: whenever the script ran with a destination block device whose (major,
\* minor) pair differs from the source's, the destination node afterwards has
\* the source's numbers.
C6_ForceOverwrite ==
    (CopyRan /\ cpBefore.dest # NoNode /\ cpBefore.dest # cpBefore.source) =>
        cpDest = cpBefore.source

\* C7: whenever the script ran with a destination block device of the same
\* (major, minor) pair as the source, the destination was not written and the
\* script exited 0; whenever it ran with no destination, it created the
\* destination from the source and exited 0.
C7_CopyIdempotent ==
    CopyRan =>
        /\ (cpBefore.dest # NoNode /\ cpBefore.dest = cpBefore.source) =>
              /\ cpDest = cpBefore.dest
              /\ cpWrites = cpBefore.writes
              /\ cpExit = 0
        /\ cpBefore.dest = NoNode =>
              /\ cpDest = cpBefore.source
              /\ cpWrites = cpBefore.writes + 1
              /\ cpExit = 0

\* C7 witness: the destination was created by the first run and two more
\* runs with the same source left it alone.
C7_Witness ==
    /\ cpRuns = 3
    /\ cpWrites = 1
    /\ cpDest = cpSource
    /\ cpBefore.dest = cpSource
    /\ cpExit = 0

-----------------------------------------------------------------------------
(* osd/spec.go: getKEKFromVaultWithToken and openEncryptedBlock, run as the
   steps getPVCEncryptionOpenInitContainerActivate returns *)

\* Bound: the number of steps run in one behaviour.
MaxStepRuns == 6

\* The encrypted raw-mode OSDs on PVC whose key comes from Vault with a
\* token: the plans that hold the key retrieval step.
KeyFlowTopologies ==
    { t \in Topologies :
        /\ t.onPVC /\ t.cvMode = "raw" /\ t.encrypted /\ ~t.encryptedDevice
        /\ t.kms = "vaultToken" }

\* The steps of the key flow, in the order of the plan.
KeyFlowSteps(t) == getPVCEncryptionOpenInitContainerActivate(osdDataDirPath, t)

OpenSteps(t) ==
    { i \in 1..Len(KeyFlowSteps(t)) :
        KeyFlowSteps(t)[i].script = "openEncryptedBlock" }

\* KEY_PATH of the key retrieval step, KEY_FILE_PATH of an open step.
KeyPathOf(c) ==
    IF c.script = "getKEKFromVaultWithToken" THEN c.params[2] ELSE c.params[1]

KeyPaths(t) == {KeyPathOf(KeyFlowSteps(t)[i]) : i \in 1..Len(KeyFlowSteps(t))}

\* DM_NAME of an open step.
DmNameOf(c) == c.params[3]

DmNames(t) == {DmNameOf(KeyFlowSteps(t)[i]) : i \in OpenSteps(t)}

\* The key volume of a new pod is empty: the key retrieval step is to write
\* the key file.
InitialKey(t) == "absent"

NoTopology ==
    [onPVC |-> FALSE, cvMode |-> "", metadata |-> FALSE, wal |-> FALSE,
     encrypted |-> FALSE, encryptedDevice |-> FALSE, kms |-> "none"]

KeyFlowIdle ==
    /\ kfTopo = NoTopology
    /\ kfPc = 0
    /\ kfStatus = "idle"
    /\ kfFiles = <<>>
    /\ kfTmp = "absent"
    /\ kfDm = <<>>
    /\ kfReads = 0
    /\ kfRuns = 0
    /\ kfLast = <<>>

KeyFlowInit ==
    /\ kfTopo \in KeyFlowTopologies
    /\ kfPc = 1
    /\ kfStatus = "ready"
    /\ kfFiles = [p \in KeyPaths(kfTopo) |-> InitialKey(kfTopo)]
    /\ kfTmp = "absent"
    /\ kfDm \in [DmNames(kfTopo) -> {"closed", "open"}]
    /\ kfReads = 0
    /\ kfRuns = 0
    /\ kfLast = <<>>

\* The body curl stored: valid says whether it parses as a JSON object,
\* warnings and errors whether it has these top-level fields, keyAt where the
\* field named KEK_NAME is ("v1": under data, "v2": under data.data), value
\* the value of that field.
Bodies ==
    [valid : BOOLEAN, warnings : BOOLEAN, errors : BOOLEAN,
     keyAt : {"none", "v1", "v2"}, value : {"", "kek"}]

\* VAULT_BACKEND: "v2" selects PYTHON_DATA_PARSE ['data']['data'] and appends
\* /data to VAULT_BACKEND_PATH.
Backends == {"v1", "v2"}

PythonDataParse(backend) == IF backend = "v2" THEN "v2" ELSE "v1"

\* python3 -c "... json.load(sys.stdin)[field]": exit 0 iff the body parses
\* and has the field.
HasField(body, field) ==
    /\ body.valid
    /\ \/ field = "warnings" /\ body.warnings
       \/ field = "errors" /\ body.errors

\* python3 -c "... json.load(sys.stdin)${PYTHON_DATA_PARSE}[KEK_NAME]"
HasKey(body, backend) == body.valid /\ body.keyAt = PythonDataParse(backend)

\* What the file at KEY_PATH holds after print(..., end='') > "$KEY_PATH".
Printed(value) == IF value = "" THEN "empty" ELSE "kek"

\* The URL curl requests: "$VAULT_ADDR"/v1/"$VAULT_BACKEND_PATH"/"$KEK_NAME",
\* where "v2" has appended /data to VAULT_BACKEND_PATH.
VaultRequestPath(backend, kekName) ==
    <<"$VAULT_ADDR", "/v1/", "$VAULT_BACKEND_PATH">>
    \o (IF backend = "v2" THEN <<"/data">> ELSE <<>>)
    \o <<"/">> \o kekName

\* The script without its check for errors in the payload.
GetKEKResultNoErrorsCheck(backend, curl, body, key) ==
    IF curl = "unreachable"
    THEN [exit |-> 7, key |-> key, tmp |-> "empty"]
    ELSE IF HasField(body, "warnings") /\ ~HasKey(body, backend)
    THEN [exit |-> 1, key |-> key, tmp |-> "body"]
    ELSE IF ~HasKey(body, backend)
    THEN [exit |-> 1, key |-> "empty", tmp |-> "body"]
    ELSE [exit |-> 0, key |-> Printed(body.value), tmp |-> "absent"]

\* One run of getKEKFromVaultWithToken under set -e: its exit status, the
\* file at KEY_PATH and the file at CURL_PAYLOAD when it has returned.
GetKEKResult(backend, curl, body, key) ==
    IF curl = "unreachable"
    THEN [exit |-> 7, key |-> key, tmp |-> "empty"]
    ELSE IF HasField(body, "warnings") /\ ~HasKey(body, backend)
    THEN [exit |-> 1, key |-> key, tmp |-> "body"]
    ELSE IF HasField(body, "errors")
    THEN [exit |-> 1, key |-> key, tmp |-> "body"]
    ELSE IF ~HasKey(body, backend)
    THEN [exit |-> 1, key |-> "empty", tmp |-> "body"]
    ELSE [exit |-> 0, key |-> Printed(body.value), tmp |-> "absent"]

\* One run of openEncryptedBlock under set -e. dm is the state of DM_NAME
\* ([ -b "$DM_PATH" ] holds for "open" and "stale"), key the file at
\* KEY_FILE_PATH, removeOk and luksOk the outcomes of dmsetup remove --force
\* and of cryptsetup luksOpen given a usable key.
OpenResult(dm, key, removeOk, luksOk) ==
    IF dm = "open"
    THEN [exit |-> 0, dm |-> "open", key |-> key, read |-> FALSE]
    ELSE IF dm = "stale" /\ ~removeOk
    THEN [exit |-> 1, dm |-> "stale", key |-> key, read |-> FALSE]
    ELSE IF key = "kek" /\ luksOk
    THEN [exit |-> 0, dm |-> "open", key |-> "absent", read |-> TRUE]
    ELSE [exit |-> 1, dm |-> "closed", key |-> key, read |-> FALSE]

\* The kubelet goes on to the next init container after exit 0.
Advance(exit) ==
    /\ kfRuns' = kfRuns + 1
    /\ IF exit = 0
       THEN /\ kfPc' = kfPc + 1
            /\ kfStatus' = IF kfPc = Len(KeyFlowSteps(kfTopo)) THEN "done" ELSE "ready"
       ELSE /\ kfPc' = kfPc
            /\ kfStatus' = "failed"

CurrentStep == KeyFlowSteps(kfTopo)[kfPc]

CanRun(script) ==
    /\ kfStatus = "ready"
    /\ kfRuns < MaxStepRuns
    /\ kfPc \in 1..Len(KeyFlowSteps(kfTopo))
    /\ CurrentStep.script = script

\* The step encryption-kms-get-kek runs.
GetKEKFromVaultWithToken ==
    /\ CanRun("getKEKFromVaultWithToken")
    /\ \E backend \in Backends, curl \in {"ok", "unreachable"}, body \in Bodies :
        LET path == KeyPathOf(CurrentStep)
            r == GetKEKResult(backend, curl, body, kfFiles[path]) IN
        /\ kfFiles' = [kfFiles EXCEPT ![path] = r.key]
        /\ kfTmp' = r.tmp
        /\ kfLast' = [script |-> CurrentStep.script, name |-> CurrentStep.name,
                      exit |-> r.exit, keyBefore |-> kfFiles[path],
                      needOpen |-> FALSE, backend |-> backend, curl |-> curl,
                      body |-> body,
                      url |-> VaultRequestPath(backend, CurrentStep.params[1])]
        /\ Advance(r.exit)
    /\ UNCHANGED <<kfTopo, kfDm, kfReads>>
    /\ UNCHANGED nonKeyVars

\* One of the steps encryption-open, encryption-open-metadata and
\* encryption-open-wal runs.
OpenEncryptedBlock ==
    /\ CanRun("openEncryptedBlock")
    /\ \E removeOk \in BOOLEAN, luksOk \in BOOLEAN :
        LET path == KeyPathOf(CurrentStep)
            name == DmNameOf(CurrentStep)
            r == OpenResult(kfDm[name], kfFiles[path], removeOk, luksOk) IN
        /\ kfFiles' = [kfFiles EXCEPT ![path] = r.key]
        /\ kfDm' = [kfDm EXCEPT ![name] = r.dm]
        /\ kfReads' = IF r.read THEN kfReads + 1 ELSE kfReads
        /\ kfLast' = [script |-> CurrentStep.script, name |-> CurrentStep.name,
                      exit |-> r.exit, keyBefore |-> kfFiles[path],
                      needOpen |-> kfDm[name] # "open", dmName |-> name,
                      dmBefore |-> kfDm[name], removeOk |-> removeOk,
                      luksOk |-> luksOk]
        /\ Advance(r.exit)
    /\ UNCHANGED <<kfTopo, kfTmp>>
    /\ UNCHANGED nonKeyVars

\* The kubelet restarts the init container that failed, in a new container.
RetryStep ==
    /\ kfStatus = "failed"
    /\ kfStatus' = "ready"
    /\ kfTmp' = "absent"
    /\ kfLast' = <<>>
    /\ UNCHANGED <<kfTopo, kfPc, kfFiles, kfDm, kfReads, kfRuns>>
    /\ UNCHANGED nonKeyVars

\* The pod is replaced: its steps run again from the first, with a new key
\* volume; the mapped devices of the host stay.
RestartPod ==
    /\ kfStatus \in {"failed", "done"}
    /\ kfPc' = 1
    /\ kfStatus' = "ready"
    /\ kfFiles' = [p \in KeyPaths(kfTopo) |-> InitialKey(kfTopo)]
    /\ kfTmp' = "absent"
    /\ kfReads' = 0
    /\ kfLast' = <<>>
    /\ UNCHANGED <<kfTopo, kfDm, kfRuns>>
    /\ UNCHANGED nonKeyVars

\* Between two pods the volume behind an open mapped device is detached.
BackingDeviceVanishes ==
    /\ kfStatus \in {"failed", "done"}
    /\ \E name \in DOMAIN kfDm :
        /\ kfDm[name] = "open"
        /\ kfDm' = [kfDm EXCEPT ![name] = "stale"]
    /\ kfLast' = <<>>
    /\ UNCHANGED <<kfTopo, kfPc, kfStatus, kfFiles, kfTmp, kfReads, kfRuns>>
    /\ UNCHANGED nonKeyVars

-----------------------------------------------------------------------------
(* Properties of the key flow *)

LastWas(script) == kfLast # <<>> /\ kfLast.script = script

\* C8: once the key retrieval step has returned, whatever the outcome, the file
\* at CURL_PAYLOAD does not exist, and after a non-zero exit there is no empty
\* key file at KEY_PATH.
C8_KeyFileLifecycle ==
    LastWas("getKEKFromVaultWithToken") =>
        /\ kfTmp = "absent"
        /\ kfLast.exit # 0 => \A p \in DOMAIN kfFiles : kfFiles[p] # "empty"

\* C9: once an open step has returned, with exit 0 or not, having opened the
\* device or found it open, no key file exists at KEY_FILE_PATH.
C9_KeyDeletedByOpen ==
    LastWas("openEncryptedBlock") =>
        \A p \in DOMAIN kfFiles : kfFiles[p] = "absent"

\* C10: in one run of the steps the key is consumed at most once, and every
\* open step that has to open its device finds the key file at KEY_FILE_PATH.
C10_KeyConsumedOnce ==
    /\ kfReads <= 1
    /\ (LastWas("openEncryptedBlock") /\ kfLast.needOpen) =>
          kfLast.keyBefore # "absent"

\* C11: whenever the key retrieval step exits 0 the key file at KEY_PATH holds
\* a key: it is not empty; and the step exits non-zero when Vault cannot be
\* reached.
C11_NoEmptyKey ==
    LastWas("getKEKFromVaultWithToken") =>
        /\ kfLast.curl = "unreachable" => kfLast.exit # 0
        /\ kfLast.exit = 0 => \A p \in DOMAIN kfFiles : kfFiles[p] = "kek"

\* The body holds the requested key where the engine version keeps it: under
\* data for v1, under data.data for v2.
KeyUnderEnginePath(body, backend) == body.valid /\ body.keyAt = backend

\* C12: the key retrieval step requests .../data/<key name> for engine v2 and
\* .../<key name> for v1; whenever the body it got has a top-level errors
\* field or lacks the key under the engine's path it exits non-zero, with or
\* without a warnings field; when it exits 0 the key file holds the value
\* found under that path.
C12_ResponseHandling ==
    (LastWas("getKEKFromVaultWithToken") /\ kfLast.curl = "ok") =>
        /\ kfLast.url =
              <<"$VAULT_ADDR", "/v1/", "$VAULT_BACKEND_PATH">>
              \o (IF kfLast.backend = "v2" THEN <<"/data", "/">> ELSE <<"/">>)
              \o generateVaultGetKEK.params[1]
        /\ ((kfLast.body.valid /\ kfLast.body.errors)
               \/ ~KeyUnderEnginePath(kfLast.body, kfLast.backend)) =>
              kfLast.exit # 0
        /\ kfLast.exit = 0 =>
              /\ KeyUnderEnginePath(kfLast.body, kfLast.backend)
              /\ \A p \in DOMAIN kfFiles :
                    kfFiles[p] = IF kfLast.body.value = "" THEN "empty" ELSE "kek"

\* C12 witness: a v2 body with warnings, errors and the key made the step
\* exit 1.
C12_Witness ==
    /\ LastWas("getKEKFromVaultWithToken")
    /\ kfLast.curl = "ok" /\ kfLast.backend = "v2"
    /\ kfLast.body.valid /\ kfLast.body.warnings /\ kfLast.body.errors
    /\ kfLast.body.keyAt = "v2"
    /\ kfLast.exit = 1
    /\ kfStatus = "failed"

\* C13: an open step that found its mapped device present, with dmsetup and
\* cryptsetup working and no empty key from Vault, exits 0 and leaves the
\* device open on a backing device that exists; it changes nothing when the
\* backing device was there.
C13_ReentrantOpen ==
    (LastWas("openEncryptedBlock") /\ kfLast.dmBefore \in {"open", "stale"}
        /\ kfLast.removeOk /\ kfLast.luksOk /\ kfLast.keyBefore # "empty") =>
        /\ kfLast.exit = 0
        /\ kfDm[kfLast.dmName] = "open"
        /\ kfLast.dmBefore = "open" =>
              \A p \in DOMAIN kfFiles : kfFiles[p] = kfLast.keyBefore

-----------------------------------------------------------------------------
(* rbd/mirror.go: the apply phase of start, run for several reconcile
   requests of the same daemon on one cluster *)

\* Bound: the number of reconcile requests of one behaviour.
MaxRequests == 2

Requests == 1..MaxRequests

QueueIdle ==
    /\ rqLive = <<>>
    /\ rqCr = <<>>
    /\ rqPc = <<>>
    /\ rqLog = <<>>
    /\ rqFault = FALSE

\* The clusters the requests may find: the daemon's deployment absent or left
\* by an earlier run, and possibly a deployment with the resource's name.
QueueClusters ==
    { f \in UNION {[S -> OldCanonical \cup {Unrelated}] :
                   S \in SUBSET {ResourceName, "my-rbd-mirror"}} :
        \A n \in DOMAIN f : (n = ResourceName) <=> (f[n] \in OldCanonical) }

QueueInit ==
    /\ rqLive \in QueueClusters
    /\ rqCr \in [Requests -> CRNames]
    /\ rqPc = [i \in Requests |-> "queued"]
    /\ rqLog = <<>>
    /\ rqFault = FALSE

\* The start call of the request has returned: "cleanup" when its apply phase
\* worked (the rest of start does not touch the daemon's deployment and
\* returns nil), "done" when it returned an error.
Returned(i) == rqPc[i] \in {"cleanup", "done"}

\* The reconciler starts a request whatever the other requests are doing.
MayStartConcurrently(i) == TRUE

\* The controller hands the reconciler one request at a time: a request
\* starts only when no other request is inside its start call.
MayStart(i) == \A j \in Requests \ {i} : rqPc[j] = "queued" \/ Returned(j)

LogCall(i, op, name) == Append(rqLog, [req |-> i, op |-> op, name |-> name])

RqPut(name, obj) ==
    [n \in (DOMAIN rqLive) \cup {name} |-> IF n = name THEN obj ELSE rqLive[n]]

RqRemove(name) == [n \in (DOMAIN rqLive) \ {name} |-> rqLive[n]]

\* The controller calls start for request i; the steps before the first
\* Create issue no call to the cluster.
RqStart ==
    \E i \in Requests :
        /\ rqPc[i] = "queued"
        /\ MayStart(i)
        /\ rqPc' = [rqPc EXCEPT ![i] = "create"]
        /\ UNCHANGED <<rqLive, rqCr, rqLog, rqFault>>
        /\ UNCHANGED nonQueueVars

\* Deployments(ns).Create(ctx, d) of request i.
RqCreate ==
    \E i \in Requests :
        /\ rqPc[i] = "create"
        /\ rqLog' = LogCall(i, "create", ResourceName)
        /\ IF ResourceName \in DOMAIN rqLive
             THEN /\ rqPc' = [rqPc EXCEPT ![i] = "update"]
                  /\ UNCHANGED <<rqLive, rqFault>>
             ELSE \E ok \in BOOLEAN :
                    /\ rqLive' = IF ok THEN RqPut(ResourceName, DesiredDeployment)
                                  ELSE rqLive
                    /\ rqFault' = (rqFault \/ ~ok)
                    /\ rqPc' = [rqPc EXCEPT ![i] = IF ok THEN "cleanup" ELSE "done"]
        /\ UNCHANGED rqCr
        /\ UNCHANGED nonQueueVars

\* updateDeploymentAndWait of request i: NotFound when the deployment is gone.
RqUpdate ==
    \E i \in Requests :
        /\ rqPc[i] = "update"
        /\ rqLog' = LogCall(i, "update", ResourceName)
        /\ \E out \in {"ok", "immutable", "error"} :
            /\ out = "ok" =>
                  /\ ResourceName \in DOMAIN rqLive
                  /\ rqLive[ResourceName].selector = DesiredSelector
            /\ out = "immutable" =>
                  /\ ResourceName \in DOMAIN rqLive
                  /\ rqLive[ResourceName].selector # DesiredSelector
            /\ rqFault' = (rqFault \/ (out = "error" /\ ResourceName \in DOMAIN rqLive))
            /\ rqLive' = IF out = "ok" THEN RqPut(ResourceName, DesiredDeployment)
                          ELSE rqLive
            /\ rqPc' = [rqPc EXCEPT ![i] = AfterUpdate(out)]
        /\ UNCHANGED rqCr
        /\ UNCHANGED nonQueueVars

\* Deployments(ns).Delete(ctx, cephRBDMirror.Name) of request i.
RqDelete ==
    \E i \in Requests :
        /\ rqPc[i] = "delete"
        /\ rqLog' = LogCall(i, "delete", rqCr[i])
        /\ \E ok \in BOOLEAN :
            /\ rqCr[i] \notin DOMAIN rqLive => ~ok
            /\ rqLive' = IF ok THEN RqRemove(rqCr[i]) ELSE rqLive
            /\ rqFault' = (rqFault \/ (~ok /\ rqCr[i] \in DOMAIN rqLive))
            /\ rqPc' = [rqPc EXCEPT ![i] = AfterDelete(ok)]
        /\ UNCHANGED rqCr
        /\ UNCHANGED nonQueueVars

\* The second Deployments(ns).Create(ctx, d) of request i.
RqRecreate ==
    \E i \in Requests :
        /\ rqPc[i] = "recreate"
        /\ rqLog' = LogCall(i, "create", ResourceName)
        /\ \E ok \in BOOLEAN :
            /\ ResourceName \in DOMAIN rqLive => ~ok
            /\ rqLive' = IF ok THEN RqPut(ResourceName, DesiredDeployment) ELSE rqLive
            /\ rqFault' = (rqFault \/ (~ok /\ ResourceName \notin DOMAIN rqLive))
            /\ rqPc' = [rqPc EXCEPT ![i] = AfterRecreate(ok)]
        /\ UNCHANGED rqCr
        /\ UNCHANGED nonQueueVars

-----------------------------------------------------------------------------
(* Properties of the start calls of several requests *)

\* The calls of each request are next to each other in the log.
NotInterleaved ==
    \A a, b, c \in 1..Len(rqLog) :
        (a < b /\ b < c /\ rqLog[a].req = rqLog[c].req) => rqLog[b].req = rqLog[a].req

\* The live deployments with the daemon's identity.
RqCanonical == {n \in DOMAIN rqLive : rqLive[n].mirror = 0}

-----------------------------------------------------------------------------
(* Specifications *)

NextReconcile ==
    \/ StartCall
    \/ CheckPodMemory
    \/ GetOwnerReference
    \/ GenerateKeyring
    \/ MakeMirrorDeployment
    \/ SetControllerReference
    \/ SetLastAppliedAnnotation
    \/ CreateDeployment
    \/ UpdateDeploymentAndWait
    \/ DeleteForRecreate
    \/ RecreateDeployment
    \/ ListMirrors
    \/ RemoveMirror
    \/ EndLoop
    \/ FinishStart

ReconcileIdle ==
    /\ crName = ""
    /\ live = <<>>
    /\ creds = {}
    /\ pc = "idle"
    /\ d = NoPlan
    /\ calls = <<>>
    /\ credCalls = <<>>
    /\ ret = "none"
    /\ faults = {}
    /\ updateRes = "none"
    /\ items = <<>>
    /\ cursor = 1
    /\ cleanupRes = "none"
    /\ callNo = 0
    /\ liveAtStart = <<>>
    /\ prevCalls = <<>>
    /\ prevFaults = {}

InitReconcile == ReconcileInit /\ PlanIdle /\ CopyIdle /\ KeyFlowIdle /\ QueueIdle

SpecReconcile == InitReconcile /\ [][NextReconcile]_vars

InitPlan == PlanInit /\ ReconcileIdle /\ CopyIdle /\ KeyFlowIdle /\ QueueIdle

NextPlan == MakeDeployment

SpecPlan == InitPlan /\ [][NextPlan]_vars

InitCopy == CopyInit /\ ReconcileIdle /\ PlanIdle /\ KeyFlowIdle /\ QueueIdle

NextCopy ==
    \/ RunBlockDevMapper
    \/ Reattach

SpecCopy == InitCopy /\ [][NextCopy]_vars

InitKeyFlow == KeyFlowInit /\ ReconcileIdle /\ PlanIdle /\ CopyIdle /\ QueueIdle

NextKeyFlow ==
    \/ GetKEKFromVaultWithToken
    \/ OpenEncryptedBlock
    \/ RetryStep
    \/ RestartPod
    \/ BackingDeviceVanishes

SpecKeyFlow == InitKeyFlow /\ [][NextKeyFlow]_vars

InitQueue == QueueInit /\ ReconcileIdle /\ PlanIdle /\ CopyIdle /\ KeyFlowIdle

NextQueue ==
    \/ RqStart
    \/ RqCreate
    \/ RqUpdate
    \/ RqDelete
    \/ RqRecreate

SpecQueue == InitQueue /\ [][NextQueue]_vars

====
